---- MODULE Spec2Model ----
(***************************************************************************)
(* A model of the Cascades join-reordering optimizer: the memo, the groups *)
(* and multi-expressions (MExpr), the interning of a logical plan          *)
(* (Cascades::gen_group_logical_plan), the recursive exploration driver    *)
(* (RuleMatcher::explore) with the commutativity and associativity rules,  *)
(* and the cost / row-count propagation.                                   *)
(*                                                                         *)
(* Conventions.                                                            *)
(*  - A group handle (Rc<RefCell<Group>>) is an index into `groups`.       *)
(*  - Table t_i has the single column a_i (test_utils::setup_tables), so a *)
(*    column is the number i and a schema is a set of columns.             *)
(*  - A fingerprint is the content fed to the Xxh3 hasher, in order: the   *)
(*    64-bit digest is taken to be collision-free on that content.         *)
(*  - Costs (f64) are integers: the per-row constants are whole numbers    *)
(*    and a selectivity 10^-e is applied by integer division.              *)
(***************************************************************************)
EXTENDS Integers, Sequences, FiniteSets, TLC

\* ------------------------------------------------------------------ bounds

\* Largest number of tables of an input plan (tables t1 .. tN).
MaxTables == 4
\* Number of calls of Cascades::optimize on the root group.
MaxOptimizeCalls == 2
\* Number of tables of the one long chain that is explored on its own.
LongChainTables == 5

\* --------------------------------------------------------------- constants

\* f64::INFINITY, the cost of an MExpr before update_cost_and_rowcount.
F64_INFINITY == 2000000001
\* u64::MAX, the row count of an MExpr before update_cost_and_rowcount.
U64_MAX == 2000000002
\* constants.rs is not part of the sources at hand; the spec only says these
\* are non-negative reals.
DEFAULT_ROW_COUNT == 1000
PROJECT_COST_PER_ROW == 1
FILTER_COST_PER_ROW == 1
JOIN_COST_PER_ROW == 2

VARIABLES
    memo,       \* Cascades.memo: fingerprint -> group handle
    groups,     \* the heap of Group objects, by handle
    todo,       \* gen_group_logical_plan: plan nodes still to intern (postfix)
    results,    \* gen_group_logical_plan: groups returned by finished calls
    root,       \* the root group handed to optimize (0: not yet known)
    stack,      \* the call stack of RuleMatcher::explore
    calls,      \* number of calls of Cascades::optimize so far
    enqueued,   \* history: every push onto an unexplored queue, in order
    inferred,   \* a call of infer_equalities, and a second call on its result
    uf,         \* a UnionFind, the equalities handed to it and the calls made
    call        \* a call of a function on its own: arguments and result

vars == <<memo, groups, todo, results, root, stack, calls, enqueued, inferred,
          uf, call>>

\* ------------------------------------------------------------ plan nodes

NoTable == 0
NoFetch == -1

\* LogicalPlan::TableScan of table t_i with `fetch` rows.
TableScanNode(i, fetch) ==
    [kind |-> "TableScan", join_type |-> "-", on |-> {}, filter |-> "None",
     join_constraint |-> "-", schema |-> {i}, table |-> i, fetch |-> fetch,
     expr |-> "-"]

\* LogicalPlan::Join with equi-join pairs `on` and output schema `schema`.
JoinNode(jt, on, filter, schema) ==
    [kind |-> "Join", join_type |-> jt, on |-> on, filter |-> filter,
     join_constraint |-> "On", schema |-> schema, table |-> NoTable,
     fetch |-> NoFetch, expr |-> "-"]

\* LogicalPlan::Filter; its schema is found through its input.
FilterNode(pred, schema) ==
    [kind |-> "Filter", join_type |-> "-", on |-> {}, filter |-> "None",
     join_constraint |-> "-", schema |-> schema, table |-> NoTable,
     fetch |-> NoFetch, expr |-> pred]

\* LogicalPlan::Projection of the literal 1 (SELECT 1).
ProjectionNode(expr) ==
    [kind |-> "Projection", join_type |-> "-", on |-> {}, filter |-> "None",
     join_constraint |-> "-", schema |-> {}, table |-> NoTable,
     fetch |-> NoFetch, expr |-> expr]

\* Number of inputs of a plan node (the match of gen_group_logical_plan).
Arity(node) ==
    CASE node.kind = "TableScan" -> 0
      [] node.kind = "Join" -> 2
      [] OTHER -> 1

\* Option<T>: None is the empty sequence, Some(x) the one-element sequence.
None == << >>
Some(x) == <<x>>

\* --------------------------------------------------------------- MExpr

\* A faulty build_with_node with the line join.on.hash(&mut hasher) active:
\* the equi-join pairs are part of what is hashed.
Fingerprint_with_on(node, operandHashes) ==
    [ops |-> operandHashes,
     schema |-> IF node.kind = "Projection" \/ node.kind = "TableScan"
                THEN node.schema ELSE {},
     expr |-> IF node.kind = "Projection" \/ node.kind = "Filter"
              THEN node.expr ELSE "-",
     join_type |-> IF node.kind = "Join" THEN node.join_type ELSE "-",
     filter |-> IF node.kind = "Join" THEN <<node.filter, node.on>> ELSE "-",
     join_constraint |-> IF node.kind = "Join" THEN node.join_constraint ELSE "-",
     table |-> IF node.kind = "TableScan" THEN node.table ELSE NoTable,
     fetch |-> IF node.kind = "TableScan" THEN node.fetch ELSE NoFetch]

\* The content MExpr::build_with_node feeds to the hasher: the operand group
\* hashes in order, then the operator's own attributes. For a join these are
\* join_type, filter and join_constraint: neither `on` nor the schema.
Fingerprint(node, operandHashes) ==
    [ops |-> operandHashes,
     schema |-> IF node.kind = "Projection" \/ node.kind = "TableScan"
                THEN node.schema ELSE {},
     expr |-> IF node.kind = "Projection" \/ node.kind = "Filter"
              THEN node.expr ELSE "-",
     join_type |-> IF node.kind = "Join" THEN node.join_type ELSE "-",
     filter |-> IF node.kind = "Join" THEN node.filter ELSE "-",
     join_constraint |-> IF node.kind = "Join" THEN node.join_constraint ELSE "-",
     table |-> IF node.kind = "TableScan" THEN node.table ELSE NoTable,
     fetch |-> IF node.kind = "TableScan" THEN node.fetch ELSE NoFetch]

\* Group::get_group_hash: the hash of the start expression, 0 without one.
get_group_hash(g) ==
    IF g.start_expression = None THEN 0 ELSE g.start_expression[1].hash

\* MExpr::build_with_node, on the heap `gs`.
build_with_node(gs, node, operands) ==
    [hash |-> Fingerprint(node,
                 [i \in 1..Len(operands) |-> get_group_hash(gs[operands[i]])]),
     cost |-> F64_INFINITY,
     row_count |-> U64_MAX,
     op |-> node,
     operands |-> operands]

\* MExpr::get_schema: the schema of the first schema-carrying operator at or
\* below the node (a Filter's is its input's).
get_schema(mexpr) == Some(mexpr.op.schema)

\* --------------------------------------------------------------- Group

\* Group::new
GroupNew(start) ==
    [explored |-> FALSE,
     min_cost |-> 0,
     start_expression |-> Some(start),
     cheapest_logical_expression |-> None,
     unexplored |-> << >>,
     equivalent |-> << >>]

\* A faulty from_mexpr that leaves the unexplored queue of the new group empty.
from_mexpr_unseeded(mexpr) == GroupNew(mexpr)

\* Group::from_mexpr: a new group with the expression as start expression
\* and as the only element of its unexplored queue.
from_mexpr(mexpr) ==
    [GroupNew(mexpr) EXCEPT !.unexplored = <<mexpr>>]

\* ---------------------------------------------------------------- memo

\* AHashMap::insert
MemoInsert(m, h, g) ==
    [x \in DOMAIN m \cup {h} |-> IF x = h THEN g ELSE m[x]]

\* A faulty gen_or_get_from_memo that creates the group but leaves out
\* memo.insert.
gen_or_get_from_memo_unbound(m, gs, mexpr) ==
    IF mexpr.hash \in DOMAIN m
    THEN [memo |-> m, groups |-> gs, group |-> m[mexpr.hash], fresh |-> FALSE]
    ELSE [memo |-> m,
          groups |-> Append(gs, from_mexpr(mexpr)),
          group |-> Len(gs) + 1,
          fresh |-> TRUE]

\* A faulty gen_or_get_from_memo that leaves out the lookup: a group is
\* created, and the hash bound to it, whether the hash is known or not.
gen_or_get_from_memo_always_new(m, gs, mexpr) ==
    [memo |-> MemoInsert(m, mexpr.hash, Len(gs) + 1),
     groups |-> Append(gs, from_mexpr(mexpr)),
     group |-> Len(gs) + 1,
     fresh |-> TRUE]

\* gen_or_get_from_memo (Cascades and RuleMatcher hold the same code): the
\* memo, heap and returned handle after interning `mexpr`.
gen_or_get_from_memo(m, gs, mexpr) ==
    IF mexpr.hash \in DOMAIN m
    THEN [memo |-> m, groups |-> gs, group |-> m[mexpr.hash], fresh |-> FALSE]
    ELSE [memo |-> MemoInsert(m, mexpr.hash, Len(gs) + 1),
          groups |-> Append(gs, from_mexpr(mexpr)),
          group |-> Len(gs) + 1,
          fresh |-> TRUE]

\* ---------------------------------------------------- expression utilities

\* The columns of a set of equalities (pairs <<left, right>>).
Cols(eqs) == {p[1] : p \in eqs} \cup {p[2] : p \in eqs}

\* UnionFind::find after every union: the class of the columns in S, that is
\* everything connected to S through the equalities.
RECURSIVE ClassOf(_, _)
ClassOf(eqs, S) ==
    LET T == S \cup {p[2] : p \in {q \in eqs : q[1] \in S}}
               \cup {p[1] : p \in {q \in eqs : q[2] \in S}}
    IN  IF T = S THEN S ELSE ClassOf(eqs, T)

\* UnionFind::get_equivalence_classes after union(left, right) for every
\* equality: the classes, singletons included.
get_equivalence_classes(eqs) == {ClassOf(eqs, {c}) : c \in Cols(eqs)}

\* UnionFind::new: empty parent and rank maps.
UnionFindNew == [parent |-> << >>, rank |-> << >>]

\* UnionFind::find: the root of x and the maps after the call. An item not
\* yet in the parent map is inserted as its own parent with rank 0; on the
\* way back from the root every item of the path is pointed at the root.
RECURSIVE find(_, _)
find(u, x) ==
    IF x \notin DOMAIN u.parent
    THEN [parent |-> MemoInsert(u.parent, x, x),
          rank |-> MemoInsert(u.rank, x, 0),
          root |-> x]
    ELSE LET parent == u.parent[x]
         IN  IF parent # x
             THEN LET r == find(u, parent)
                  IN  [parent |-> MemoInsert(r.parent, x, r.root),
                       rank |-> r.rank,
                       root |-> r.root]
             ELSE [parent |-> u.parent, rank |-> u.rank, root |-> x]

\* A faulty union that hangs b itself, not the root of b, under the root
\* of a.
union_unrooted(u, a, b) ==
    LET fa == find(u, a)
        fb == find([parent |-> fa.parent, rank |-> fa.rank], b)
    IN  IF fa.root = fb.root THEN [parent |-> fb.parent, rank |-> fb.rank]
        ELSE [parent |-> MemoInsert(fb.parent, b, fa.root), rank |-> fb.rank]

\* UnionFind::union: the maps after the call. The root of lower rank is
\* hung under the other; with equal ranks root_b goes under root_a, whose
\* rank grows by one.
union(u, a, b) ==
    LET fa == find(u, a)
        fb == find([parent |-> fa.parent, rank |-> fa.rank], b)
        root_a == fa.root
        root_b == fb.root
        rank_a == fb.rank[root_a]
        rank_b == fb.rank[root_b]
    IN  IF root_a = root_b THEN [parent |-> fb.parent, rank |-> fb.rank]
        ELSE IF rank_a < rank_b
        THEN [parent |-> MemoInsert(fb.parent, root_a, root_b), rank |-> fb.rank]
        ELSE IF rank_a > rank_b
        THEN [parent |-> MemoInsert(fb.parent, root_b, root_a), rank |-> fb.rank]
        ELSE [parent |-> MemoInsert(fb.parent, root_b, root_a),
              rank |-> MemoInsert(fb.rank, root_a, rank_a + 1)]

\* flip_equality: b = a for a = b.
flip_equality(p) == <<p[2], p[1]>>

\* A set of columns as a sequence, smallest first.
RECURSIVE Sorted(_)
Sorted(S) ==
    IF S = {} THEN << >>
    ELSE LET m == CHOOSE x \in S : \A y \in S : x <= y
         IN  <<m>> \o Sorted(S \ {m})

\* The iteration orders a HashMap with the keys S can have: every sequence
\* of the keys without repetition.
HashOrders(S) ==
    LET s == Sorted(S)
    IN  {[i \in 1..Len(s) |-> f[s[i]]] : f \in Permutations(S)}

\* The pairs <<keys[i], keys[j]>> that are in P, for (i, j) in lexicographic
\* order; with `upper`, only those with i < j.
PairsInOrder(keys, P, upper) ==
    LET n == Len(keys)
        idx == [k \in 1..(n * n) |-> <<((k - 1) \div n) + 1, ((k - 1) % n) + 1>>]
        Keep(ij) == (~upper \/ ij[1] < ij[2]) /\ <<keys[ij[1]], keys[ij[2]]>> \in P
        sel == SelectSeq(idx, Keep)
    IN  [k \in 1..Len(sel) |-> <<keys[sel[k][1]], keys[sel[k][2]]>>]

\* A faulty infer_equalities that leaves out the test against the input:
\* every pair of different members of a class is kept.
InferCandidates_unfiltered(eqs) ==
    LET same == UNION {C \X C : C \in get_equivalence_classes(eqs)}
    IN  {p \in same : p[1] # p[2]}

\* A faulty infer_equalities that infers nothing.
InferCandidates_none(eqs) == {}

\* The pairs infer_equalities generates and keeps, in either direction: two
\* different members of one class, not in the input as written (with a = b
\* in the input, b = a is not excluded).
InferCandidates(eqs) ==
    LET same == UNION {C \X C : C \in get_equivalence_classes(eqs)}
    IN  {p \in same : p[1] # p[2] /\ p \notin eqs}

\* infer_equalities: for every class of two or more, the equalities
\* group[i] = group[j], i < j, that are not in the input. `keys` is the
\* iteration order of the union-find's parent map, which orders every group.
infer_equalities(eqs, keys) == PairsInOrder(keys, InferCandidates(eqs), TRUE)

\* Result<T, E>: Ok(x) is x itself; an Err is a pair of a value of x's shape
\* and the mark "Err", so it differs from None and from every Some(y).
Err(shape) == <<shape, "Err">>
IsErr(x) == Len(x) = 2

\* A column reference on which the key oracle fails: the crate of
\* find_valid_equijoin_key_pair is not among the sources, and its signature
\* (a Result, taken up with `?` on line 137) allows an error.
AmbiguousCol == 0

\* A faulty key oracle that tries the pair as written only.
find_valid_equijoin_key_pair_as_written(l, r, left_schema, right_schema) ==
    IF l = AmbiguousCol \/ r = AmbiguousCol THEN Err(<<l, r>>)
    ELSE IF l \in left_schema /\ r \in right_schema THEN Some(<<l, r>>)
    ELSE None

\* datafusion_expr::utils::find_valid_equijoin_key_pair on two columns:
\* the pair as (left-schema side, right-schema side), None when neither
\* orientation fits, an error for a column the oracle cannot resolve.
find_valid_equijoin_key_pair(l, r, left_schema, right_schema) ==
    IF l = AmbiguousCol \/ r = AmbiguousCol THEN Err(<<l, r>>)
    ELSE IF l \in left_schema /\ r \in right_schema THEN Some(<<l, r>>)
    ELSE IF r \in left_schema /\ l \in right_schema THEN Some(<<r, l>>)
    ELSE None

\* The accumulation loop of split_eq_and_noneq_join_predicate over the
\* conjuncts in iteration order: a key pair is inserted unless it or its
\* flip is already accumulated; a conjunct without key pair is a filter; an
\* error of the oracle ends the loop (`?`) and is the result.
RECURSIVE AccumJoinKeys(_, _, _, _, _)
AccumJoinKeys(conj, left_schema, right_schema, keys, filters) ==
    IF conj = << >> THEN [on |-> keys, residual |-> filters, err |-> FALSE]
    ELSE LET e == Head(conj)
             kp == find_valid_equijoin_key_pair(e[1], e[2], left_schema, right_schema)
         IN  IF IsErr(kp) THEN [on |-> {}, residual |-> {}, err |-> TRUE]
             ELSE IF kp = None
             THEN AccumJoinKeys(Tail(conj), left_schema, right_schema,
                                keys, filters \cup {e})
             ELSE IF <<kp[1][2], kp[1][1]>> \in keys \/ kp[1] \in keys
             THEN AccumJoinKeys(Tail(conj), left_schema, right_schema, keys, filters)
             ELSE AccumJoinKeys(Tail(conj), left_schema, right_schema,
                                keys \cup {kp[1]}, filters)

\* An on-list (a Vec collected from a HashSet of pairs) in a stored order:
\* its pairs as the order `keys` of their columns arranges them.
OnList(on, keys) == PairsInOrder(keys, on, FALSE)

\* Line 125 of split_eq_and_noneq_join_predicate: the lists
\* exprs.chain(inferred) the loop can iterate, one per hash order, for a
\* filter whose conjuncts are the on-lists left_on and on.
ConjunctLists(left_on, on) ==
    {OnList(left_on, x[1]) \o OnList(on, x[1]) \o PairsInOrder(x[1], x[2], TRUE) :
        x \in HashOrders(Cols(left_on \cup on)) \X {InferCandidates(left_on \cup on)}}

\* split_eq_and_noneq_join_predicate on one such list: the equi-join keys
\* and the residual conjuncts, or the oracle's error.
split_eq_and_noneq_join_predicate(conjuncts, left_schema, right_schema) ==
    AccumJoinKeys(conjuncts, left_schema, right_schema, {}, {})

\* build_join_schema for an inner join: the fields of both inputs.
build_join_schema(left_schema, right_schema) == left_schema \cup right_schema

\* ------------------------------------------------------------ cost model

\* A faulty lookup that finds no entry of SELECTIVITY_MAP: every pair of
\* tables has selectivity 1.0.
SelectivityExp_missing(t, u) == 0

\* SELECTIVITY_MAP, keyed by a pair of table names in either order: the
\* selectivity 10^-e as its exponent e; a missing entry is 1.0 (e = 0).
SelectivityExp(t, u) ==
    LET lo == IF t < u THEN t ELSE u
        hi == IF t < u THEN u ELSE t
    IN  IF lo = hi \/ lo < 1 \/ hi > 5 THEN 0
        ELSE IF lo = 4 /\ hi = 5 THEN 1
        ELSE 3

\* get_unique_equalities: one pair (group[0], group[1]) per class of two or
\* more; group[0] and group[1] are the first two of the class in the hash
\* order of the union-find's keys, so any two distinct members can be picked.
\* The result is every representative choice, as a function from class to pair.
get_unique_equalities(on) ==
    LET classes == {C \in get_equivalence_classes(on) : Cardinality(C) > 1}
    IN  {f \in [classes -> Cols(on) \X Cols(on)] :
            \A C \in classes : f[C][1] \in C /\ f[C][2] \in C /\ f[C][1] # f[C][2]}

RECURSIVE SumExp(_, _)
SumExp(f, D) ==
    IF D = {} THEN 0
    ELSE LET C == CHOOSE x \in D : TRUE
         IN  SelectivityExp(f[C][1], f[C][2]) + SumExp(f, D \ {C})

\* MExpr::get_join_selectivity: the product of the table selectivities of the
\* representative equalities, as exponents; one value per choice the hash
\* order allows.
get_join_selectivity(on) ==
    {SumExp(f, DOMAIN f) : f \in get_unique_equalities(on)}

\* (10^-e * x) as u64
RECURSIVE ScaleDown(_, _)
ScaleDown(x, e) == IF e = 0 \/ x = 0 THEN x ELSE ScaleDown(x \div 10, e - 1)

RECURSIVE Product(_)
Product(s) == IF s = << >> THEN 1 ELSE Head(s) * Product(Tail(s))

RECURSIVE Sum(_)
Sum(s) == IF s = << >> THEN 0 ELSE Head(s) + Sum(Tail(s))

\* A faulty get_group_row_count that returns what the code computes and drops
\* for a group that is not explored: the row count of the start expression.
get_group_row_count_from_start(g) ==
    IF ~g.explored
    THEN IF g.start_expression = None THEN 0 ELSE g.start_expression[1].row_count
    ELSE IF g.cheapest_logical_expression = None THEN 0
    ELSE g.cheapest_logical_expression[1].row_count

\* Group::get_group_row_count: the row count of the cheapest expression, 0
\* when there is none (the value computed from the start expression for a
\* group that is not explored is dropped).
get_group_row_count(g) ==
    IF g.cheapest_logical_expression = None THEN 0
    ELSE g.cheapest_logical_expression[1].row_count

\* Group::get_group_cost
get_group_cost(g) == g.min_cost

\* A faulty update_cost_and_rowcount that leaves the expression as built.
update_cost_and_rowcount_skipped(gs, mexpr, sel) == mexpr

\* MExpr::update_cost_and_rowcount with join selectivity 10^-sel.
update_cost_and_rowcount(gs, mexpr, sel) ==
    LET operand_row_counts ==
            [i \in 1..Len(mexpr.operands) |-> get_group_row_count(gs[mexpr.operands[i]])]
        operand_costs ==
            Sum([i \in 1..Len(mexpr.operands) |-> get_group_cost(gs[mexpr.operands[i]])])
        first == IF operand_row_counts = << >> THEN DEFAULT_ROW_COUNT
                 ELSE operand_row_counts[1]
        kind == mexpr.op.kind
        row_count ==
            CASE kind = "Projection" -> first
              [] kind = "Filter" -> first \div 10
              [] kind = "Join" -> ScaleDown(Product(operand_row_counts), sel)
              [] kind = "TableScan" ->
                    IF mexpr.op.fetch = NoFetch THEN DEFAULT_ROW_COUNT
                    ELSE mexpr.op.fetch
              [] OTHER -> DEFAULT_ROW_COUNT
        cost ==
            CASE kind = "Projection" -> PROJECT_COST_PER_ROW * row_count + operand_costs
              [] kind = "Filter" -> FILTER_COST_PER_ROW * row_count + operand_costs
              [] kind = "Join" -> JOIN_COST_PER_ROW * row_count + operand_costs
              [] kind = "TableScan" -> row_count
              [] OTHER -> 0
    IN  [mexpr EXCEPT !.cost = cost, !.row_count = row_count]

\* A faulty for_each of set_explored that never replaces the cheapest
\* expression once it has one: the first of the list is kept.
CheapestFromFirst(cheapest, eqv) ==
    IF cheapest = None /\ eqv # << >> THEN Some(Head(eqv)) ELSE cheapest

\* A faulty for_each of set_explored with the comparison turned around: the
\* costliest expression is kept.
RECURSIVE CheapestFromCostliest(_, _)
CheapestFromCostliest(cheapest, eqv) ==
    IF eqv = << >> THEN cheapest
    ELSE IF cheapest = None THEN CheapestFromCostliest(Some(Head(eqv)), Tail(eqv))
    ELSE IF Head(eqv).cost > cheapest[1].cost
    THEN CheapestFromCostliest(Some(Head(eqv)), Tail(eqv))
    ELSE CheapestFromCostliest(cheapest, Tail(eqv))

\* A faulty for_each of set_explored with <= for <: among expressions of
\* equal cost the last one is kept.
RECURSIVE CheapestFromLastOfEqual(_, _)
CheapestFromLastOfEqual(cheapest, eqv) ==
    IF eqv = << >> THEN cheapest
    ELSE IF cheapest = None THEN CheapestFromLastOfEqual(Some(Head(eqv)), Tail(eqv))
    ELSE IF Head(eqv).cost <= cheapest[1].cost
    THEN CheapestFromLastOfEqual(Some(Head(eqv)), Tail(eqv))
    ELSE CheapestFromLastOfEqual(cheapest, Tail(eqv))

\* The for_each of Group::set_explored: a later expression replaces the
\* cheapest only when its cost is strictly lower.
RECURSIVE CheapestFrom(_, _)
CheapestFrom(cheapest, eqv) ==
    IF eqv = << >> THEN cheapest
    ELSE IF cheapest = None THEN CheapestFrom(Some(Head(eqv)), Tail(eqv))
    ELSE IF Head(eqv).cost < cheapest[1].cost
    THEN CheapestFrom(Some(Head(eqv)), Tail(eqv))
    ELSE CheapestFrom(cheapest, Tail(eqv))

\* A faulty set_explored that records the cheapest expression but never sets
\* the flag.
set_explored_flagless(g, explored) ==
    LET cheapest == CheapestFrom(g.cheapest_logical_expression, g.equivalent)
    IN  [g EXCEPT !.cheapest_logical_expression = cheapest,
                  !.min_cost = IF cheapest = None THEN 0 ELSE cheapest[1].cost]

\* Group::set_explored
set_explored(g, explored) ==
    LET cheapest == CheapestFrom(g.cheapest_logical_expression, g.equivalent)
    IN  [g EXCEPT !.explored = explored,
                  !.cheapest_logical_expression = cheapest,
                  !.min_cost = IF cheapest = None THEN 0 ELSE cheapest[1].cost]

\* ------------------------------------------------------------------ rules

\* A commutativity rule that never fires.
apply_join_commutativity_none(gs, mexpr) == << >>

\* A faulty commutativity rule that puts the group seeded with the join
\* itself in the place of the left operand: (A JOIN B) => (B JOIN (A JOIN B)).
apply_join_commutativity_nested(gs, mexpr) ==
    IF mexpr.op.kind = "Join"
    THEN LET own == {g \in DOMAIN gs : get_group_hash(gs[g]) = mexpr.hash}
             left == IF own = {} THEN mexpr.operands[1] ELSE CHOOSE g \in own : TRUE
         IN  <<build_with_node(gs, mexpr.op, <<mexpr.operands[2], left>>)>>
    ELSE << >>

\* RuleMatcher::apply_join_commutativity: (A JOIN B) => (B JOIN A), the
\* operator node reused as it is.
apply_join_commutativity(gs, mexpr) ==
    IF mexpr.op.kind = "Join"
    THEN <<build_with_node(gs, mexpr.op, <<mexpr.operands[2], mexpr.operands[1]>>)>>
    ELSE << >>

\* SelectSeq on the kind of the operator: the join variants of a list.
RECURSIVE JoinsOf(_)
JoinsOf(eqv) ==
    IF eqv = << >> THEN << >>
    ELSE IF Head(eqv).op.kind = "Join" THEN <<Head(eqv)>> \o JoinsOf(Tail(eqv))
    ELSE JoinsOf(Tail(eqv))

\* A faulty head of apply_join_associativity that keeps the first join
\* variant of the left operand group only.
left_inner_joins_first_only(gs, mexpr) ==
    IF mexpr.op.kind = "Join"
    THEN LET joins == JoinsOf(gs[mexpr.operands[1]].equivalent)
         IN  IF joins = << >> THEN << >> ELSE <<Head(joins)>>
    ELSE << >>

\* A faulty head of apply_join_associativity that takes the join variants of
\* the left operand group last first.
left_inner_joins_reversed(gs, mexpr) ==
    IF mexpr.op.kind = "Join"
    THEN LET joins == JoinsOf(gs[mexpr.operands[1]].equivalent)
         IN  [k \in 1..Len(joins) |-> joins[Len(joins) + 1 - k]]
    ELSE << >>

\* The head of apply_join_associativity: the join variants of the left
\* operand group's equivalent list, none when the expression is no join.
left_inner_joins(gs, mexpr) ==
    IF mexpr.op.kind = "Join" THEN JoinsOf(gs[mexpr.operands[1]].equivalent)
    ELSE << >>

\* The schema of a group's start expression (None: the variant is skipped).
StartSchema(g) ==
    IF g.start_expression = None THEN None ELSE get_schema(g.start_expression[1])

\* The equi-join clause of a predicate split, the residual dropped (`_other`,
\* `_other2`): Some(on), or the error that `.unwrap()` will panic on.
OnOf(split) == IF split.err THEN Err({}) ELSE Some(split.on)

\* The equi-join clauses the first predicate split of an iteration can give,
\* against the schemas of B and C, over the conjunct lists; None when a
\* schema is missing.
NewRightOns(gs, mexpr, left_mexpr, lists) ==
    LET left_r_schema == StartSchema(gs[left_mexpr.operands[2]])
        right_schema == StartSchema(gs[mexpr.operands[2]])
    IN  IF left_r_schema = None \/ right_schema = None THEN {None}
        ELSE {OnOf(split_eq_and_noneq_join_predicate(
                       c, left_r_schema[1], right_schema[1])) : c \in lists}

\* The equi-join clauses the second predicate split can give, against the
\* schemas of A and of the new right join; None when a schema is missing.
NewTopOns(gs, mexpr, left_mexpr, lists) ==
    LET left_l_schema == StartSchema(gs[left_mexpr.operands[1]])
        left_r_schema == StartSchema(gs[left_mexpr.operands[2]])
        right_schema == StartSchema(gs[mexpr.operands[2]])
    IN  IF left_l_schema = None \/ left_r_schema = None \/ right_schema = None
        THEN {None}
        ELSE {OnOf(split_eq_and_noneq_join_predicate(
                       c, left_l_schema[1],
                       build_join_schema(left_r_schema[1], right_schema[1]))) :
                 c \in lists}

\* One iteration of the loop of apply_join_associativity, for the left
\* variant left_mexpr = (A JOIN B) of mexpr = (left JOIN C): the memo and
\* heap after interning (B JOIN C), and the top join A JOIN (B JOIN C), if the
\* iteration gets that far. on1 and on2 are the results of the two predicate
\* splits; `panic` tells that an error was unwrapped: that of a split, or
\* that of build_join_schema over two schemas with a column in common.
AssociateVariant(m, gs, mexpr, left_mexpr, on1, on2) ==
    LET right == mexpr.operands[2]
        left_l == left_mexpr.operands[1]
        left_r == left_mexpr.operands[2]
        left_r_schema == StartSchema(gs[left_r])
        right_schema == StartSchema(gs[right])
    IN  IF left_r_schema = None \/ right_schema = None
        THEN [memo |-> m, groups |-> gs, out |-> << >>, interned |-> None,
              panic |-> FALSE]
        ELSE IF IsErr(on1) \/ left_r_schema[1] \cap right_schema[1] # {}
        THEN [memo |-> m, groups |-> gs, out |-> << >>, interned |-> None,
              panic |-> TRUE]
        ELSE
        LET new_right_join_schema == build_join_schema(left_r_schema[1], right_schema[1])
            new_right_join_node ==
                [JoinNode("Inner", on1[1], "None", new_right_join_schema)
                   EXCEPT !.join_constraint = mexpr.op.join_constraint]
            new_right_mexpr == build_with_node(gs, new_right_join_node, <<left_r, right>>)
            r == gen_or_get_from_memo(m, gs, new_right_mexpr)
            interned == Some([mexpr |-> new_right_mexpr, fresh |-> r.fresh,
                              group |-> r.group])
            left_l_schema == StartSchema(r.groups[left_l])
        IN  IF left_l_schema = None
            THEN [memo |-> r.memo, groups |-> r.groups, out |-> << >>,
                  interned |-> interned, panic |-> FALSE]
            ELSE IF IsErr(on2) \/ left_l_schema[1] \cap new_right_join_schema # {}
            THEN [memo |-> r.memo, groups |-> r.groups, out |-> << >>,
                  interned |-> interned, panic |-> TRUE]
            ELSE
            LET new_top_join_node ==
                    [JoinNode("Inner", on2[1], "None",
                              build_join_schema(left_l_schema[1], new_right_join_schema))
                       EXCEPT !.join_constraint = left_mexpr.op.join_constraint]
            IN  [memo |-> r.memo, groups |-> r.groups,
                 out |-> <<build_with_node(r.groups, new_top_join_node,
                                           <<left_l, r.group>>)>>,
                 interned |-> interned, panic |-> FALSE]

\* ------------------------------------------------------------ input plans

\* Row counts handed to generate_logical_plan (table_scan.fetch), by table:
\* the vector of the unit test, a command line with row counts that 0.001
\* does not divide evenly, or the command line's 4 rows per table.
RowCounts(profile) ==
    IF profile = "test" THEN <<100, 200, 30, 400>>
    ELSE IF profile = "skewed" THEN <<1999, 1, 2000>>
    ELSE [i \in 1..(MaxTables + LongChainTables) |-> 4]

Profiles == {"test", "cli"}

\* The shapes of an input plan: the chain as generate_logical_plan builds it,
\* t1 read through a Filter, t1 without fetch, or the topmost join a LEFT join.
Variants == {"plain", "filtered", "fetchless", "left"}

\* generate_logical_plan, in the order gen_group_logical_plan interns it
\* (inputs before the node, left before right): the left-deep chain
\* t1 JOIN t2 ON a1 = a2 JOIN t3 ON a2 = a3 ... under SELECT 1. With
\* `filtered`, t1 is read through a Filter; with fetchless, t1 has no fetch.
RECURSIVE ChainPlan(_, _, _, _, _)
ChainPlan(n, profile, filtered, fetchless, top) ==
    IF n = 1
    THEN <<TableScanNode(1, IF fetchless THEN NoFetch ELSE RowCounts(profile)[1])>>
         \o (IF filtered THEN <<FilterNode("a1 > 0", {1})>> ELSE << >>)
    ELSE ChainPlan(n - 1, profile, filtered, fetchless, "Inner")
         \o <<TableScanNode(n, RowCounts(profile)[n]),
              JoinNode(top, {<<n - 1, n>>}, "None", 1..n)>>

\* The plans handed to gen_group_logical_plan: a chain of every length the
\* row-count vector covers: with the unit test's row counts in every shape,
\* with the command line's as main.rs builds it.
InputPlans ==
    {ChainPlan(x[1], x[2], x[3] = "filtered", x[3] = "fetchless",
               IF x[3] = "left" THEN "Left" ELSE "Inner") \o <<ProjectionNode("1")>> :
        x \in {y \in (1..MaxTables) \X Profiles \X Variants :
                  /\ y[1] <= Len(RowCounts(y[2]))
                  /\ (y[3] # "plain" => y[2] = "test")}}

\* The chain of n tables with the command line's row counts, where the join
\* that brings in t_k has a second equi-join pair on a column the key oracle
\* cannot resolve.
AmbiguousChainPlan(n, k) ==
    LET plan == ChainPlan(n, "cli", FALSE, FALSE, "Inner") \o <<ProjectionNode("1")>>
    IN  [i \in DOMAIN plan |->
            IF plan[i].kind = "Join" /\ plan[i].schema = 1..k
            THEN [plan[i] EXCEPT !.on = @ \cup {<<AmbiguousCol, k>>}]
            ELSE plan[i]]

OraclePlans ==
    {AmbiguousChainPlan(x[1], x[2]) :
        x \in {y \in (3..MaxTables) \X (3..MaxTables) : y[2] <= y[1]}}

\* ------------------------------------------------------------ the machine

\* A frame of RuleMatcher::explore.
Frame(g) ==
    [group |-> g, pc |-> "enter", mexpr |-> None, i |-> 1,
     transformed |-> << >>, lefts |-> << >>, result |-> << >>]

EmptyMemo == [h \in {} |-> 0]

\* No call of infer_equalities on its own.
NoInference ==
    [input |-> {}, keys |-> << >>, output |-> << >>, again |-> << >>, step |-> 0]

\* No function called on its own.
NoCall == [fn |-> "-", args |-> << >>, result |-> << >>, step |-> 0]

\* No UnionFind on its own.
NoUnionFind ==
    [parent |-> << >>, rank |-> << >>, input |-> << >>, done |-> 0, finds |-> 0]

\* Cascades::default, and a plan of `plans` about to be interned.
InitWith(plans) ==
    /\ memo = EmptyMemo
    /\ groups = << >>
    /\ todo \in plans
    /\ results = << >>
    /\ root = 0
    /\ stack = << >>
    /\ calls = 0
    /\ enqueued = << >>
    /\ inferred = NoInference
    /\ uf = NoUnionFind
    /\ call = NoCall

Init == InitWith(InputPlans)

\* The same start over the long chain, with the command line's row counts.
InitLong ==
    InitWith({ChainPlan(LongChainTables, "cli", FALSE, FALSE, "Inner")
                 \o <<ProjectionNode("1")>>})

\* The same start over the chains with row counts that 0.001 does not divide
\* evenly, as the command line accepts them.
InitSkewed ==
    InitWith({ChainPlan(n, "skewed", FALSE, FALSE, "Inner") \o <<ProjectionNode("1")>> :
                 n \in 1..Len(RowCounts("skewed"))})

\* A plan with a join whose two inputs are the same table scan, which
\* gen_group_logical_plan interns as one group:
\* (t1 JOIN t2 ON a1 = a2) JOIN (t3 JOIN t3 ON a3 = a3) ON a2 = a3, under
\* SELECT 1, with the unit test's row counts.
SelfJoinPlan ==
    <<TableScanNode(1, RowCounts("test")[1]), TableScanNode(2, RowCounts("test")[2]),
      JoinNode("Inner", {<<1, 2>>}, "None", {1, 2}),
      TableScanNode(3, RowCounts("test")[3]), TableScanNode(3, RowCounts("test")[3]),
      JoinNode("Inner", {<<3, 3>>}, "None", {3}),
      JoinNode("Inner", {<<2, 3>>}, "None", {1, 2, 3}),
      ProjectionNode("1")>>

\* The same start over the input plans and the plan with the self-join.
InitSelfJoin == InitWith(InputPlans \cup {SelfJoinPlan})

\* The same start over a plan with a join key the oracle cannot resolve.
InitOracle == InitWith(OraclePlans)

Top == stack[Len(stack)]
SetTop(f) == [stack EXCEPT ![Len(stack)] = f]
Pop == SubSeq(stack, 1, Len(stack) - 1)

\* One call of Cascades::gen_group_logical_plan, after the calls for its
\* inputs returned: build the MExpr over the input groups and intern it.
GenGroupLogicalPlan ==
    /\ todo # << >>
    /\ LET node == Head(todo)
           k == Len(results) - Arity(node)
           operands == SubSeq(results, k + 1, Len(results))
           mexpr == build_with_node(groups, node, operands)
           r == gen_or_get_from_memo(memo, groups, mexpr)
       IN  /\ memo' = r.memo
           /\ groups' = r.groups
           /\ results' = Append(SubSeq(results, 1, k), r.group)
           /\ todo' = Tail(todo)
           /\ root' = IF Tail(todo) = << >> THEN r.group ELSE root
           /\ enqueued' = IF r.fresh
                          THEN Append(enqueued, [hash |-> mexpr.hash, group |-> r.group,
                                                 by |-> "intern"])
                          ELSE enqueued
    /\ UNCHANGED <<inferred, uf, call, stack, calls>>

\* Cascades::optimize: the call of explore on the root group.
Optimize ==
    /\ todo = << >>
    /\ stack = << >>
    /\ calls < MaxOptimizeCalls
    /\ stack' = <<Frame(root)>>
    /\ calls' = calls + 1
    /\ UNCHANGED <<inferred, uf, call, memo, groups, todo, results, root, enqueued>>

\* explore, line 39: return at once from a group that is explored.
ExploreEnter ==
    /\ stack # << >>
    /\ Top.pc = "enter"
    /\ stack' = IF groups[Top.group].explored THEN Pop
                ELSE SetTop([Top EXCEPT !.pc = "pop"])
    /\ UNCHANGED <<inferred, uf, call, memo, groups, todo, results, root, calls, enqueued>>

\* explore, the head of the while loop: pop_front of the unexplored queue.
PopUnexplored ==
    /\ stack # << >>
    /\ Top.pc = "pop"
    /\ groups[Top.group].unexplored # << >>
    /\ groups' = [groups EXCEPT ![Top.group].unexplored = Tail(@)]
    /\ stack' = SetTop([Top EXCEPT !.pc = "operands", !.i = 1,
                          !.mexpr = Some(Head(groups[Top.group].unexplored))])
    /\ UNCHANGED <<inferred, uf, call, memo, todo, results, root, calls, enqueued>>

\* A faulty loop of explore (`if let` for `while let`): the call may mark the
\* group explored and return while expressions are still queued.
MarkExploredEarly ==
    /\ stack # << >>
    /\ Top.pc = "pop"
    /\ groups' = [groups EXCEPT ![Top.group] = set_explored(@, TRUE)]
    /\ stack' = Pop
    /\ UNCHANGED <<inferred, uf, call, memo, todo, results, root, calls, enqueued>>

\* explore, after the loop: the queue is empty, the group is marked explored
\* and the call returns.
MarkExplored ==
    /\ stack # << >>
    /\ Top.pc = "pop"
    /\ groups[Top.group].unexplored = << >>
    /\ groups' = [groups EXCEPT ![Top.group] = set_explored(@, TRUE)]
    /\ stack' = Pop
    /\ UNCHANGED <<inferred, uf, call, memo, todo, results, root, calls, enqueued>>

\* A faulty loop over the operands that leaves out the recursive call.
ExploreOperandSkipped ==
    /\ stack # << >>
    /\ Top.pc = "operands"
    /\ Top.i <= Len(Top.mexpr[1].operands)
    /\ stack' = SetTop([Top EXCEPT !.i = @ + 1])
    /\ UNCHANGED <<inferred, uf, call, memo, groups, todo, results, root, calls, enqueued>>

\* explore, the loop over the operands: the recursive call for the next one.
ExploreOperand ==
    /\ stack # << >>
    /\ Top.pc = "operands"
    /\ Top.i <= Len(Top.mexpr[1].operands)
    /\ stack' = Append(SetTop([Top EXCEPT !.i = @ + 1]),
                       Frame(Top.mexpr[1].operands[Top.i]))
    /\ UNCHANGED <<inferred, uf, call, memo, groups, todo, results, root, calls, enqueued>>

\* apply_transformation_rules, first block: the commutativity rule.
ApplyJoinCommutativity ==
    /\ stack # << >>
    /\ Top.pc = "operands"
    /\ Top.i > Len(Top.mexpr[1].operands)
    /\ stack' = SetTop([Top EXCEPT !.pc = "add_commutativity",
                          !.transformed = apply_join_commutativity(groups, Top.mexpr[1])])
    /\ UNCHANGED <<inferred, uf, call, memo, groups, todo, results, root, calls, enqueued>>

\* A faulty add_new_mexprs without the contains_key test: every expression is
\* bound and pushed.
add_new_mexpr_unchecked(m, gs, g, new_expr) ==
    [memo |-> MemoInsert(m, new_expr.hash, g),
     groups |-> [gs EXCEPT ![g].unexplored = Append(@, new_expr)],
     pushed |-> TRUE]

\* A faulty add_new_mexprs that binds the hash and leaves out the push.
add_new_mexpr_unqueued(m, gs, g, new_expr) ==
    IF new_expr.hash \notin DOMAIN m
    THEN [memo |-> MemoInsert(m, new_expr.hash, g), groups |-> gs, pushed |-> FALSE]
    ELSE [memo |-> m, groups |-> gs, pushed |-> FALSE]

\* A faulty add_new_mexprs with push_front for push_back.
add_new_mexpr_push_front(m, gs, g, new_expr) ==
    IF new_expr.hash \notin DOMAIN m
    THEN [memo |-> MemoInsert(m, new_expr.hash, g),
          groups |-> [gs EXCEPT ![g].unexplored = <<new_expr>> \o @],
          pushed |-> TRUE]
    ELSE [memo |-> m, groups |-> gs, pushed |-> FALSE]

\* A faulty add_new_mexprs that hands an expression whose hash the memo has
\* bound to an explored group back to that group's queue.
add_new_mexpr_requeue(m, gs, g, new_expr) ==
    IF new_expr.hash \notin DOMAIN m
    THEN [memo |-> MemoInsert(m, new_expr.hash, g),
          groups |-> [gs EXCEPT ![g].unexplored = Append(@, new_expr)],
          pushed |-> TRUE]
    ELSE IF gs[m[new_expr.hash]].explored
    THEN [memo |-> m,
          groups |-> [gs EXCEPT ![m[new_expr.hash]].unexplored = Append(@, new_expr)],
          pushed |-> FALSE]
    ELSE [memo |-> m, groups |-> gs, pushed |-> FALSE]

\* add_new_mexprs, one iteration of its loop: an expression whose hash is not
\* in the memo is bound to the current group and pushed on its queue; one
\* whose hash is in the memo is dropped.
add_new_mexpr(m, gs, g, new_expr) ==
    IF new_expr.hash \notin DOMAIN m
    THEN [memo |-> MemoInsert(m, new_expr.hash, g),
          groups |-> [gs EXCEPT ![g].unexplored = Append(@, new_expr)],
          pushed |-> TRUE]
    ELSE [memo |-> m, groups |-> gs, pushed |-> FALSE]

\* A faulty apply_transformation_rules that hands add_new_mexprs the group of
\* the outermost call of explore instead of its own.
AddNewMexprsToCaller ==
    /\ stack # << >>
    /\ Top.pc \in {"add_commutativity", "add_associativity"}
    /\ Top.transformed # << >>
    /\ LET new_expr == Head(Top.transformed)
           r == add_new_mexpr(memo, groups, stack[1].group, new_expr)
       IN  /\ memo' = r.memo
           /\ groups' = r.groups
           /\ enqueued' = IF r.pushed
                          THEN Append(enqueued, [hash |-> new_expr.hash,
                                                 group |-> stack[1].group, by |-> "rule"])
                          ELSE enqueued
    /\ stack' = SetTop([Top EXCEPT !.transformed = Tail(@)])
    /\ UNCHANGED <<inferred, uf, call, todo, results, root, calls>>

AddNewMexprs ==
    /\ stack # << >>
    /\ Top.pc \in {"add_commutativity", "add_associativity"}
    /\ Top.transformed # << >>
    /\ LET new_expr == Head(Top.transformed)
           r == add_new_mexpr(memo, groups, Top.group, new_expr)
       IN  /\ memo' = r.memo
           /\ groups' = r.groups
           /\ enqueued' = IF r.pushed
                          THEN Append(enqueued, [hash |-> new_expr.hash,
                                                 group |-> Top.group, by |-> "rule"])
                          ELSE enqueued
    /\ stack' = SetTop([Top EXCEPT !.transformed = Tail(@)])
    /\ UNCHANGED <<inferred, uf, call, todo, results, root, calls>>

\* apply_transformation_rules, second block: the head of
\* apply_join_associativity, which collects the join variants of the left
\* operand group.
ApplyJoinAssociativity ==
    /\ stack # << >>
    /\ Top.pc = "add_commutativity"
    /\ Top.transformed = << >>
    /\ stack' = SetTop([Top EXCEPT !.pc = "associativity", !.result = << >>,
                          !.lefts = left_inner_joins(groups, Top.mexpr[1])])
    /\ UNCHANGED <<inferred, uf, call, memo, groups, todo, results, root, calls, enqueued>>

\* apply_join_associativity, one iteration of the loop over the left variants
\* (the conjunct lists and the iteration's outcome are bound by \E, so each is
\* computed once). A panic leaves the call stack where it is: no call of
\* explore takes another step and optimize does not return.
AssociativityVariant ==
    /\ stack # << >>
    /\ Top.pc = "associativity"
    /\ Top.lefts # << >>
    /\ \E left_mexpr \in {Head(Top.lefts)} :
       \E lists \in {ConjunctLists(left_mexpr.op.on, Top.mexpr[1].op.on)} :
       \E on1 \in NewRightOns(groups, Top.mexpr[1], left_mexpr, lists) :
       \E on2 \in NewTopOns(groups, Top.mexpr[1], left_mexpr, lists) :
       \E r \in {AssociateVariant(memo, groups, Top.mexpr[1], left_mexpr, on1, on2)} :
              /\ memo' = r.memo
              /\ groups' = r.groups
              /\ enqueued' = IF r.interned # None /\ r.interned[1].fresh
                             THEN Append(enqueued, [hash |-> r.interned[1].mexpr.hash,
                                                    group |-> r.interned[1].group,
                                                    by |-> "intern"])
                             ELSE enqueued
              /\ stack' = IF r.panic THEN SetTop([Top EXCEPT !.pc = "panic"])
                          ELSE SetTop([Top EXCEPT !.lefts = Tail(@),
                                                  !.result = @ \o r.out])
    /\ UNCHANGED <<inferred, uf, call, todo, results, root, calls>>

\* A faulty apply_join_associativity that interns the new right joins and
\* returns an empty Vec.
AssociativityReturnsNothing ==
    /\ stack # << >>
    /\ Top.pc = "associativity"
    /\ Top.lefts = << >>
    /\ stack' = SetTop([Top EXCEPT !.pc = "add_associativity",
                          !.transformed = << >>, !.result = << >>])
    /\ UNCHANGED <<inferred, uf, call, memo, groups, todo, results, root, calls, enqueued>>

\* apply_join_associativity returns its result to add_new_mexprs.
AssociativityReturn ==
    /\ stack # << >>
    /\ Top.pc = "associativity"
    /\ Top.lefts = << >>
    /\ stack' = SetTop([Top EXCEPT !.pc = "add_associativity",
                          !.transformed = Top.result, !.result = << >>])
    /\ UNCHANGED <<inferred, uf, call, memo, groups, todo, results, root, calls, enqueued>>

\* A faulty loop body of explore that may call update_cost_and_rowcount and
\* push the expression right after popping it, before the operands are
\* explored and the rules applied.
UpdateCostAndPushEarly ==
    /\ stack # << >>
    /\ \/ Top.pc = "operands"
       \/ Top.pc = "add_associativity" /\ Top.transformed = << >>
    /\ \E sel \in get_join_selectivity(Top.mexpr[1].op.on) :
          groups' = [groups EXCEPT ![Top.group].equivalent =
                        Append(@, update_cost_and_rowcount(groups, Top.mexpr[1], sel))]
    /\ stack' = SetTop([Top EXCEPT !.pc = "pop", !.mexpr = None])
    /\ UNCHANGED <<inferred, uf, call, memo, todo, results, root, calls, enqueued>>

\* explore, the end of the loop body: update_cost_and_rowcount, then the
\* expression is pushed on the equivalent list.
UpdateCostAndPush ==
    /\ stack # << >>
    /\ Top.pc = "add_associativity"
    /\ Top.transformed = << >>
    /\ \E sel \in get_join_selectivity(Top.mexpr[1].op.on) :
          groups' = [groups EXCEPT ![Top.group].equivalent =
                        Append(@, update_cost_and_rowcount(groups, Top.mexpr[1], sel))]
    /\ stack' = SetTop([Top EXCEPT !.pc = "pop", !.mexpr = None])
    /\ UNCHANGED <<inferred, uf, call, memo, todo, results, root, calls, enqueued>>

\* A step of a running call of explore.
ExploreStep ==
    \/ ExploreEnter
    \/ PopUnexplored
    \/ MarkExplored
    \/ ExploreOperand
    \/ ApplyJoinCommutativity
    \/ AddNewMexprs
    \/ ApplyJoinAssociativity
    \/ AssociativityVariant
    \/ AssociativityReturn
    \/ UpdateCostAndPush

Next ==
    \/ GenGroupLogicalPlan
    \/ Optimize
    \/ ExploreStep

Spec == Init /\ [][Next]_vars

\* explore is a synchronous procedure: once optimize has called it, it runs
\* step after step until it returns, so a step that stays possible is taken.
SpecFair == Spec /\ WF_vars(ExploreStep)

\* The optimizer over the long chain.
SpecLong == InitLong /\ [][Next]_vars

\* The optimizer over the chains with uneven row counts.
SpecSkewed == InitSkewed /\ [][Next]_vars

\* The optimizer over the input plans and the plan with the self-join.
SpecSelfJoin == InitSelfJoin /\ [][Next]_vars

\* The optimizer over the plans with a key the oracle fails on.
SpecOracle == InitOracle /\ [][Next]_vars

\* ------------------------------------------------- infer_equalities alone

\* The columns of the predicates handed to infer_equalities: a, b, c, d.
InferColumns == {1, 2, 3, 4}

\* Largest number of different predicates in a list handed to infer_equalities.
MaxEqualities == 3

\* The lists handed to infer_equalities, as the set of their predicates: the
\* function reads its list into a HashSet and into the union-find, so neither
\* the order of the list nor a repeated predicate matters to it. A predicate
\* is x = y for two different columns.
EqualityLists ==
    {eqs \in SUBSET {p \in InferColumns \X InferColumns : p[1] # p[2]} :
        Cardinality(eqs) <= MaxEqualities}

\* A list of predicates and a hash order of the union-find's parent map.
InitInfer ==
    /\ memo = EmptyMemo
    /\ groups = << >>
    /\ todo = << >>
    /\ results = << >>
    /\ root = 0
    /\ stack = << >>
    /\ calls = 0
    /\ enqueued = << >>
    /\ uf = NoUnionFind
    /\ call = NoCall
    /\ \E eqs \in EqualityLists :
       \E keys \in HashOrders(Cols(eqs)) :
           inferred = [NoInference EXCEPT !.input = eqs, !.keys = keys]

\* infer_equalities(input)
InferEqualities ==
    /\ inferred.step = 0
    /\ inferred' = [inferred EXCEPT
                       !.output = infer_equalities(inferred.input, inferred.keys),
                       !.step = 1]
    /\ UNCHANGED <<uf, call, memo, groups, todo, results, root, stack, calls, enqueued>>

\* infer_equalities(input ++ infer_equalities(input)): a new union-find with
\* a hash order of its own.
InferAgain ==
    /\ inferred.step = 1
    /\ \E keys \in HashOrders(Cols(inferred.input)) :
          inferred' = [inferred EXCEPT
                          !.again = infer_equalities(
                                        inferred.input \cup {inferred.output[i] :
                                            i \in DOMAIN inferred.output}, keys),
                          !.step = 2]
    /\ UNCHANGED <<uf, call, memo, groups, todo, results, root, stack, calls, enqueued>>

NextInfer == InferEqualities \/ InferAgain

SpecInfer == InitInfer /\ [][NextInfer]_vars

\* Number of calls of find made from outside union.
MaxFinds == 1

\* The lists of equalities handed to the union-find, in every order and with
\* repetition: pairs of two different columns.
EqualitySeqs ==
    UNION {[1..n -> {p \in InferColumns \X InferColumns : p[1] # p[2]}] :
              n \in 0..MaxEqualities}

\* UnionFind::new, and a list of equalities about to be united.
InitUnionFind ==
    /\ memo = EmptyMemo
    /\ groups = << >>
    /\ todo = << >>
    /\ results = << >>
    /\ root = 0
    /\ stack = << >>
    /\ calls = 0
    /\ enqueued = << >>
    /\ inferred = NoInference
    /\ call = NoCall
    /\ \E eqs \in EqualitySeqs : uf = [NoUnionFind EXCEPT !.input = eqs]

\* uf.union(left, right) for the next equality of the list (the loops of
\* get_unique_equalities and infer_equalities).
Union ==
    /\ uf.done < Len(uf.input)
    /\ LET eq == uf.input[uf.done + 1]
           u == union([parent |-> uf.parent, rank |-> uf.rank], eq[1], eq[2])
       IN  uf' = [uf EXCEPT !.parent = u.parent, !.rank = u.rank,
                            !.done = uf.done + 1]
    /\ UNCHANGED <<inferred, call, memo, groups, todo, results, root, stack, calls, enqueued>>

\* uf.find(x) for a column x, seen before or not (the loop of
\* get_equivalence_classes calls it for every key).
Find ==
    /\ uf.finds < MaxFinds
    /\ \E x \in InferColumns :
          LET f == find([parent |-> uf.parent, rank |-> uf.rank], x)
          IN  uf' = [uf EXCEPT !.parent = f.parent, !.rank = f.rank,
                               !.finds = uf.finds + 1]
    /\ UNCHANGED <<inferred, call, memo, groups, todo, results, root, stack, calls, enqueued>>

NextUnionFind == Union \/ Find

SpecUnionFind == InitUnionFind /\ [][NextUnionFind]_vars

\* The state of the optimizer and of the other calls while one function is
\* called on its own.
Idle ==
    /\ memo = EmptyMemo
    /\ groups = << >>
    /\ todo = << >>
    /\ results = << >>
    /\ root = 0
    /\ stack = << >>
    /\ calls = 0
    /\ enqueued = << >>
    /\ inferred = NoInference
    /\ uf = NoUnionFind

\* The columns t1.a1 .. t5.a1 of the tables SELECTIVITY_MAP has entries for.
SelectivityColumns == {1, 2, 3, 4, 5}

\* The on-clauses handed to get_join_selectivity: pairs of two different
\* columns.
OnClauses ==
    {on \in SUBSET {p \in SelectivityColumns \X SelectivityColumns : p[1] # p[2]} :
        Cardinality(on) <= MaxEqualities}

\* An on-clause about to be handed to get_join_selectivity.
InitSelectivity ==
    /\ Idle
    /\ \E on \in OnClauses :
          call = [NoCall EXCEPT !.fn = "get_join_selectivity", !.args = <<on>>]

\* MExpr::get_join_selectivity(on); the value depends on which two members
\* of a class the hash order of the union-find puts first.
GetJoinSelectivity ==
    /\ call.fn = "get_join_selectivity"
    /\ call.step = 0
    /\ \E sel \in get_join_selectivity(call.args[1]) :
          call' = [call EXCEPT !.result = <<sel>>, !.step = 1]
    /\ UNCHANGED <<inferred, uf, memo, groups, todo, results, root, stack, calls, enqueued>>

NextSelectivity == GetJoinSelectivity

SpecSelectivity == InitSelectivity /\ [][NextSelectivity]_vars

\* The schemas of the two inputs of a join: two non-empty sets of columns
\* without a common column.
SchemaPairs ==
    {x \in (SUBSET InferColumns) \X (SUBSET InferColumns) :
        x[1] # {} /\ x[2] # {} /\ x[1] \cap x[2] = {}}

\* A predicate about to be split: its conjuncts in one of the orders line 125
\* can have them, those of the filter (once, or twice when both joins have
\* them) followed by the inferred ones, and the two schemas.
InitSplit ==
    /\ Idle
    /\ \E eqs \in EqualityLists :
       \E twice \in BOOLEAN :
       \E conjuncts \in ConjunctLists(eqs, IF twice THEN eqs ELSE {}) :
       \E schemas \in SchemaPairs :
          call = [NoCall EXCEPT !.fn = "split_eq_and_noneq_join_predicate",
                                !.args = <<conjuncts, schemas[1], schemas[2]>>]

\* split_eq_and_noneq_join_predicate(filter, left_schema, right_schema)
SplitEqAndNoneqJoinPredicate ==
    /\ call.fn = "split_eq_and_noneq_join_predicate"
    /\ call.step = 0
    /\ call' = [call EXCEPT
                   !.result = <<split_eq_and_noneq_join_predicate(
                                    call.args[1], call.args[2], call.args[3])>>,
                   !.step = 1]
    /\ UNCHANGED <<inferred, uf, memo, groups, todo, results, root, stack, calls, enqueued>>

SpecSplit == InitSplit /\ [][SplitEqAndNoneqJoinPredicate]_vars

\* ------------------------------------------------------------ properties

Range(seq) == {seq[i] : i \in DOMAIN seq}

GroupIds == 1..Len(groups)

\* The expressions a group lists: its unexplored queue, then its equivalent list.
Listed(g) == g.unexplored \o g.equivalent

\* The operand groups of the expressions in the list or option s.
OperandsIn(s) == UNION {Range(s[i].operands) : i \in DOMAIN s}

\* The groups that group g refers to, through any expression it holds.
OperandsOf(g) ==
    OperandsIn(Listed(g)) \cup OperandsIn(g.start_expression)
                          \cup OperandsIn(g.cheapest_logical_expression)

\* The groups reachable from the groups S through operand references.
RECURSIVE ReachableFrom(_)
ReachableFrom(S) ==
    LET T == S \cup UNION {OperandsOf(groups[g]) : g \in S}
    IN  IF T = S THEN S ELSE ReachableFrom(T)

\* optimize has been called and has returned.
OptimizeReturned == calls > 0 /\ stack = << >>

\* The input is a chain of inner joins over table scans under a projection.
InnerChainInput ==
    \A g \in GroupIds :
        LET op == groups[g].start_expression[1].op
        IN  /\ op.kind # "Filter"
            /\ op.kind = "Join" => op.join_type = "Inner"

TableScanGroups ==
    {g \in GroupIds : groups[g].start_expression[1].op.kind = "TableScan"}

\* C1: after optimize(root) has returned, every group reachable from root
\* through operand references is explored, has an empty unexplored queue, and
\* has as min_cost the least cost of the expressions of its equivalent list.
C1_ExploredAfterOptimize ==
    OptimizeReturned =>
        \A g \in ReachableFrom({root}) :
            /\ groups[g].explored
            /\ groups[g].unexplored = << >>
            /\ \E i \in DOMAIN groups[g].equivalent :
                  groups[g].equivalent[i].cost = groups[g].min_cost
            /\ \A i \in DOMAIN groups[g].equivalent :
                  groups[g].min_cost <= groups[g].equivalent[i].cost

\* C1 witness: optimize has returned over a plan of MaxTables tables, and a
\* reachable group lists alternatives of different cost.
C1_Witness ==
    /\ OptimizeReturned
    /\ Cardinality(TableScanGroups) = MaxTables
    /\ \E g \in ReachableFrom({root}) :
          \E i, j \in DOMAIN groups[g].equivalent :
              groups[g].equivalent[i].cost < groups[g].equivalent[j].cost

PushedNow ==
    {groups'[g].unexplored[Len(groups'[g].unexplored)].hash :
        g \in {x \in 1..Len(groups') :
                  IF x <= Len(groups)
                  THEN Len(groups'[x].unexplored) > Len(groups[x].unexplored)
                  ELSE groups'[x].unexplored # << >>}}

EverEnqueued == {enqueued[i].hash : i \in DOMAIN enqueued}

\* C3: a push onto an unexplored queue happens only for a fingerprint that is
\* absent from the memo at that moment, and no fingerprint is enqueued twice
\* over the run, whatever the group.
C3_PushOnlyAbsent ==
    [][/\ \A h \in PushedNow : h \notin DOMAIN memo /\ h \notin EverEnqueued
       /\ EverEnqueued' = EverEnqueued \cup PushedNow
       /\ Len(enqueued') = Len(enqueued) + Cardinality(PushedNow)]_vars

\* C3 witness: a rule has pushed an expression before, and the next rule
\* output is one whose fingerprint the memo knows.
C3_Witness ==
    /\ stack # << >>
    /\ Top.pc \in {"add_commutativity", "add_associativity"}
    /\ Top.transformed # << >>
    /\ Head(Top.transformed).hash \in DOMAIN memo
    /\ \E i \in DOMAIN enqueued : enqueued[i].by = "rule"

\* The fingerprint of an expression, computed anew from its operator and the
\* present hashes of its operand groups.
Recomputed(e) ==
    Fingerprint(e.op, [i \in 1..Len(e.operands) |-> get_group_hash(groups[e.operands[i]])])

\* C4, as the spec states it: for every key h of the memo, the fingerprint of
\* the start expression of memo[h] is h.
C4_StartFingerprintIsKey ==
    \A h \in DOMAIN memo :
        Recomputed(groups[memo[h]].start_expression[1]) = h

\* C4, amended: the fingerprint of the start expression of a group is a key
\* of the memo bound to that group, so for every key h the start fingerprint
\* of memo[h] is bound to memo[h] as well; it is h itself exactly when h was
\* bound by interning. A key bound by add_new_mexprs belongs to the origin
\* group, whose start expression has another fingerprint.
C4_StartFingerprintOfOwner ==
    LET interned == {enqueued[i].hash :
                        i \in {j \in DOMAIN enqueued : enqueued[j].by = "intern"}}
        start_hash == [g \in GroupIds |-> groups[g].start_expression[1].hash]
    IN  /\ \A g \in GroupIds :
              /\ Recomputed(groups[g].start_expression[1]) = start_hash[g]
              /\ start_hash[g] \in DOMAIN memo
              /\ memo[start_hash[g]] = g
        /\ \A h \in DOMAIN memo : (start_hash[memo[h]] = h) <=> (h \in interned)

\* C4 witness: a key of the memo that a rule bound to its origin group.
C4_Witness ==
    \E h \in DOMAIN memo :
        /\ get_group_hash(groups[memo[h]]) # h
        /\ \E i \in DOMAIN enqueued : enqueued[i].hash = h /\ enqueued[i].by = "rule"

\* A running call of explore on group g has popped an expression of
\* fingerprint h.
PoppedOn(g, h) ==
    \E k \in DOMAIN stack :
        /\ stack[k].group = g
        /\ stack[k].mexpr # None
        /\ stack[k].mexpr[1].hash = h

\* Group g lists an expression of fingerprint h.
Lists(g, h) ==
    \E i \in DOMAIN Listed(groups[g]) : Listed(groups[g])[i].hash = h

\* C5: for every key h of the memo, the group memo[h] holds an expression of
\* fingerprint h: in its unexplored queue, in its equivalent list, or popped
\* by a running call of explore on that group.
C5_Canonicality ==
    \A h \in DOMAIN memo : Lists(memo[h], h) \/ PoppedOn(memo[h], h)

\* C5 witness: a key of the memo whose expression is in neither list of its
\* group: it is the one a running call has popped.
C5_Witness ==
    \E h \in DOMAIN memo : ~Lists(memo[h], h) /\ PoppedOn(memo[h], h)

\* The fingerprints of the expressions group g lists.
ListedHashes(g) ==
    {Listed(groups[g])[i].hash : i \in DOMAIN Listed(groups[g])}

\* C6: no fingerprint occurs twice in the lists of one group or in the lists
\* of two groups (there are as many listed fingerprints as listed
\* expressions), and the group that lists an expression of fingerprint h is
\* memo[h].
C6_OneGroupPerFingerprint ==
    /\ Cardinality(UNION {ListedHashes(g) : g \in GroupIds})
          = Sum([g \in GroupIds |-> Len(Listed(groups[g]))])
    /\ \A g \in GroupIds :
          \A h \in ListedHashes(g) : h \in DOMAIN memo /\ memo[h] = g

\* C6 witness: a group with expressions in both of its lists, next to
\* another group that lists more than one expression.
C6_Witness ==
    \E g, g2 \in GroupIds :
        /\ g # g2
        /\ groups[g].unexplored # << >>
        /\ groups[g].equivalent # << >>
        /\ Len(Listed(groups[g2])) > 1

\* C7: if a group is explored, so is every group that is an operand of an
\* expression of its equivalent list, and every group reachable from there.
C7_ChildrenFirst ==
    \A g \in GroupIds :
        groups[g].explored =>
            /\ \A o \in OperandsIn(groups[g].equivalent) : groups[o].explored
            /\ \A o \in ReachableFrom({g}) : groups[o].explored

\* C7 witness: during a run of explore, an explored group whose equivalent
\* list has a join over two groups.
C7_Witness ==
    /\ stack # << >>
    /\ \E g \in GroupIds :
          /\ groups[g].explored
          /\ \E i \in DOMAIN groups[g].equivalent :
                Len(groups[g].equivalent[i].operands) > 1

\* C8: in every state an explored group has an empty unexplored queue, and no
\* step pushes onto the queue of a group that is explored.
C8_QueueDrainage ==
    /\ [](\A g \in GroupIds : groups[g].explored => groups[g].unexplored = << >>)
    /\ [][\A g \in GroupIds :
             Len(groups'[g].unexplored) > Len(groups[g].unexplored)
                => ~groups[g].explored]_vars

\* C8 witness: while explore runs, one group is explored and a rule output
\* waits in the queue of another.
C8_Witness ==
    /\ stack # << >>
    /\ \E g, g2 \in GroupIds :
          /\ groups[g].explored
          /\ groups[g2].unexplored # << >>
          /\ \E i \in DOMAIN enqueued :
                enqueued[i].by = "rule" /\ enqueued[i].group = g2

\* The call of gen_or_get_from_memo this step makes, if any: the fingerprint
\* and the operands of the expression handed in, and the group handed back
\* (None where the caller does not keep it). gen_group_logical_plan interns
\* the next plan node, an iteration of apply_join_associativity the new right
\* join (B JOIN C).
InternCall ==
    IF todo # << >>
    THEN LET node == Head(todo)
             operands == SubSeq(results, Len(results) - Arity(node) + 1, Len(results))
         IN  {[hash |-> Fingerprint(node,
                           [i \in 1..Len(operands) |-> get_group_hash(groups[operands[i]])]),
               operands |-> operands,
               ret |-> Some(results'[Len(results')])]}
    ELSE IF stack # << >> /\ Top.pc = "associativity" /\ Top.lefts # << >>
    THEN LET operands == <<Head(Top.lefts).operands[2], Top.mexpr[1].operands[2]>>
             out == stack'[Len(stack')].result
         IN  {[hash |-> Fingerprint(
                           [JoinNode("Inner", {}, "None", {})
                              EXCEPT !.join_constraint = Top.mexpr[1].op.join_constraint],
                           [i \in 1..2 |-> get_group_hash(groups[operands[i]])]),
               operands |-> operands,
               ret |-> IF Len(out) > Len(Top.result)
                       THEN Some(out[Len(out)].operands[2]) ELSE None]}
    ELSE {}

\* C9: interning an expression whose fingerprint is a key of the memo hands
\* back the group bound to it and changes neither the memo nor any group (so
\* a second, independently built expression over the same operands with the
\* same attributes gets the same group); otherwise one entry is added to the
\* memo, bound to a new group that is not explored, has the expression as
\* start expression and as only element of its queue, and an empty equivalent
\* list.
C9_InternContract ==
    [][\A c \in InternCall :
          IF c.hash \in DOMAIN memo
          THEN /\ memo' = memo
               /\ groups' = groups
               /\ c.ret # None => c.ret[1] = memo[c.hash]
          ELSE /\ DOMAIN memo' = DOMAIN memo \cup {c.hash}
               /\ \A k \in DOMAIN memo : memo'[k] = memo[k]
               /\ memo'[c.hash] = Len(groups) + 1
               /\ Len(groups') = Len(groups) + 1
               /\ \A g \in GroupIds : groups'[g] = groups[g]
               /\ c.ret # None => c.ret[1] = Len(groups) + 1
               /\ LET new == groups'[Len(groups')]
                  IN  /\ ~new.explored
                      /\ new.equivalent = << >>
                      /\ Len(new.unexplored) = 1
                      /\ new.start_expression = Some(new.unexplored[1])
                      /\ new.unexplored[1].hash = c.hash
                      /\ new.unexplored[1].operands = c.operands]_vars

\* C9 witness: apply_join_associativity is about to intern a right join whose
\* fingerprint the memo has, bound to a group that was itself made by
\* interning.
C9_Witness ==
    /\ stack # << >>
    /\ Top.pc = "associativity"
    /\ Top.lefts # << >>
    /\ LET operands == <<Head(Top.lefts).operands[2], Top.mexpr[1].operands[2]>>
           h == Fingerprint(
                   [JoinNode("Inner", {}, "None", {})
                      EXCEPT !.join_constraint = Top.mexpr[1].op.join_constraint],
                   [i \in 1..2 |-> get_group_hash(groups[operands[i]])])
       IN  /\ h \in DOMAIN memo
           /\ get_group_hash(groups[memo[h]]) = h

\* The iteration of add_new_mexprs this step makes, if any: the derived
\* expression and the origin group.
RegisterCall ==
    IF /\ stack # << >>
       /\ Top.pc \in {"add_commutativity", "add_associativity"}
       /\ Top.transformed # << >>
    THEN {[expr |-> Head(Top.transformed), origin |-> Top.group]}
    ELSE {}

\* C10: registering a derived expression whose fingerprint is a key of the
\* memo changes neither the memo nor any group; when the fingerprint is
\* absent, the memo gains the one entry that binds it to the origin group, the
\* origin group's queue gains the expression at its back, and nothing else
\* changes.
C10_RegisterFrame ==
    [][\A c \in RegisterCall :
          IF c.expr.hash \in DOMAIN memo
          THEN memo' = memo /\ groups' = groups
          ELSE /\ DOMAIN memo' = DOMAIN memo \cup {c.expr.hash}
               /\ \A k \in DOMAIN memo : memo'[k] = memo[k]
               /\ memo'[c.expr.hash] = c.origin
               /\ Len(groups') = Len(groups)
               /\ \A g \in GroupIds \ {c.origin} : groups'[g] = groups[g]
               /\ LET old == groups[c.origin]
                      new == groups'[c.origin]
                  IN  /\ new.unexplored = Append(old.unexplored, c.expr)
                      /\ new.equivalent = old.equivalent
                      /\ new.explored = old.explored
                      /\ new.min_cost = old.min_cost
                      /\ new.start_expression = old.start_expression
                      /\ new.cheapest_logical_expression
                            = old.cheapest_logical_expression]_vars

\* C10 witness: add_new_mexprs holds two outputs of the associativity rule,
\* the first with a fingerprint the memo knows and the second with one it
\* does not, while the origin group's queue is not empty.
C10_Witness ==
    /\ stack # << >>
    /\ Top.pc = "add_associativity"
    /\ Len(Top.transformed) > 1
    /\ Top.transformed[1].hash \in DOMAIN memo
    /\ Top.transformed[2].hash \notin DOMAIN memo
    /\ groups[Top.group].unexplored # << >>

\* explore is about to call apply_transformation_rules on the popped
\* expression: the recursive calls for its operands have returned.
AtTransformationRules ==
    /\ stack # << >>
    /\ Top.pc = "operands"
    /\ Top.i > Len(Top.mexpr[1].operands)

\* An inner join over two groups of different fingerprints.
InnerJoinOverDistinct(e) ==
    /\ e.op.kind = "Join"
    /\ e.op.join_type = "Inner"
    /\ get_group_hash(groups[e.operands[1]]) # get_group_hash(groups[e.operands[2]])

\* The list s holds a join with the operands ops.
HoldsJoinOver(s, ops) ==
    \E i \in DOMAIN s : s[i].op.kind = "Join" /\ s[i].operands = ops

\* C11, as the spec states it: for an inner join over [L, R] with different
\* group fingerprints, the commutativity rule emits exactly one expression, with the same operator
\* payload, the operands [R, L] and a fingerprint other than the input's; and
\* an explored group that lists an inner join over [L, R] lists a join over
\* [R, L] as well.
C11_Commutativity ==
    /\ [][(AtTransformationRules /\ InnerJoinOverDistinct(Top.mexpr[1])) =>
             LET mexpr == Top.mexpr[1]
                 out == stack'[Len(stack')].transformed
             IN  /\ Len(out) = 1
                 /\ out[1].op = mexpr.op
                 /\ out[1].operands = <<mexpr.operands[2], mexpr.operands[1]>>
                 /\ out[1].hash # mexpr.hash]_vars
    /\ [](\A g \in GroupIds :
             groups[g].explored =>
                 \A i \in DOMAIN groups[g].equivalent :
                     LET e == groups[g].equivalent[i]
                     IN  InnerJoinOverDistinct(e) =>
                             HoldsJoinOver(groups[g].equivalent,
                                           <<e.operands[2], e.operands[1]>>))

\* The running call of explore is inside apply_transformation_rules for the
\* expression it popped.
InTransformationRules ==
    /\ stack # << >>
    /\ Top.mexpr # None
    /\ \/ AtTransformationRules
       \/ Top.pc \in {"add_commutativity", "associativity", "add_associativity"}

\* C12, as the spec states it: while apply_transformation_rules runs for an
\* expression whose operator is not an inner join (a join of another type, a
\* projection, a filter or a table scan), no step adds an entry to the memo,
\* creates a group or pushes onto a queue.
C12_RulesOnlyOnInnerJoins ==
    [][(/\ InTransformationRules
        /\ ~(Top.mexpr[1].op.kind = "Join" /\ Top.mexpr[1].op.join_type = "Inner"))
          => /\ memo' = memo
             /\ Len(groups') = Len(groups)
             /\ \A g \in GroupIds : groups'[g].unexplored = groups[g].unexplored]_vars

\* The join variants of the equivalent list of group g, by position.
JoinVariants(g) ==
    {i \in DOMAIN groups[g].equivalent : groups[g].equivalent[i].op.kind = "Join"}

\* C13: apply_join_associativity on a join [LG, RG] of group G takes up every
\* join variant of LG's equivalent list; for each variant [A, B] it interns a
\* join over [B, RG], bound in the memo to a group BC, and emits a join over
\* [A, BC]; and add_new_mexprs binds each emitted join whose fingerprint is
\* new to G, creating no group.
C13_Associativity ==
    [][/\ (/\ stack # << >>
           /\ Top.pc = "add_commutativity"
           /\ Top.transformed = << >>
           /\ Top.mexpr[1].op.kind = "Join") =>
             LET LG == Top.mexpr[1].operands[1]
                 lefts == stack'[Len(stack')].lefts
             IN  /\ Len(lefts) = Cardinality(JoinVariants(LG))
                 /\ \A i \in JoinVariants(LG) :
                       \E k \in DOMAIN lefts : lefts[k] = groups[LG].equivalent[i]
       /\ (stack # << >> /\ Top.pc = "associativity" /\ Top.lefts # << >>) =>
             \A c \in InternCall :
                 LET A == Head(Top.lefts).operands[1]
                     B == Head(Top.lefts).operands[2]
                     RG == Top.mexpr[1].operands[2]
                     out == stack'[Len(stack')].result
                 IN  /\ c.operands = <<B, RG>>
                     /\ c.hash \in DOMAIN memo'
                     /\ Len(out) = Len(Top.result) + 1
                     /\ SubSeq(out, 1, Len(Top.result)) = Top.result
                     /\ out[Len(out)].op.kind = "Join"
                     /\ out[Len(out)].operands = <<A, memo'[c.hash]>>
       /\ (/\ stack # << >>
           /\ Top.pc = "add_associativity"
           /\ Top.transformed # << >>
           /\ Head(Top.transformed).hash \notin DOMAIN memo) =>
             /\ Head(Top.transformed).hash \in DOMAIN memo'
             /\ memo'[Head(Top.transformed).hash] = Top.group
             /\ Len(groups') = Len(groups)]_vars

\* C13 witness: the rule has emitted a top join for each of several left
\* variants, and add_new_mexprs is about to bind the first, a join over
\* [A, BC] with a new fingerprint, where BC is the group of a join whose right
\* operand is RG.
C13_Witness ==
    /\ stack # << >>
    /\ Top.pc = "add_associativity"
    /\ Len(Top.transformed) > 1
    /\ Head(Top.transformed).hash \notin DOMAIN memo
    /\ LET BC == Head(Top.transformed).operands[2]
       IN  \E i \in DOMAIN Listed(groups[BC]) :
               /\ Listed(groups[BC])[i].op.kind = "Join"
               /\ Listed(groups[BC])[i].operands[2] = Top.mexpr[1].operands[2]

\* The next iteration of apply_join_associativity is one whose combined
\* predicate holds a key the oracle fails on, so that the predicate splitter
\* returns an error.
SplitterErrorAhead ==
    /\ stack # << >>
    /\ Top.pc = "associativity"
    /\ Top.lefts # << >>
    /\ AmbiguousCol \in Cols(Head(Top.lefts).op.on \cup Top.mexpr[1].op.on)

\* C14, as the spec states it: an iteration of apply_join_associativity in
\* which the predicate splitter returns an error skips its left variant and
\* goes on with the remaining ones, emitting nothing for it; and no call of
\* explore is ever aborted.
C14_SplitterErrorSkipsVariant ==
    /\ [][SplitterErrorAhead =>
             /\ stack'[Len(stack')].pc = "associativity"
             /\ stack'[Len(stack')].lefts = Tail(Top.lefts)
             /\ stack'[Len(stack')].result = Top.result]_vars
    /\ [](\A k \in DOMAIN stack : stack[k].pc # "panic")

\* The plan of scenario S1 has been interned: SELECT 1 over t1 JOIN t2 ON
\* a1 = a2, with 100 rows of t1 and 200 rows of t2.
S1_Input ==
    /\ todo = << >>
    /\ Len(results) = 1
    /\ Len(groups) = 4
    /\ groups[1].start_expression[1].op = TableScanNode(1, 100)
    /\ groups[2].start_expression[1].op = TableScanNode(2, 200)
    /\ groups[3].start_expression[1].op = JoinNode("Inner", {<<1, 2>>}, "None", {1, 2})
    /\ groups[3].start_expression[1].operands = <<1, 2>>
    /\ groups[4].start_expression[1].op = ProjectionNode("1")
    /\ groups[4].start_expression[1].operands = <<3>>

\* C15: after optimize on the plan of S1, the memo has exactly 5 keys, bound
\* to 4 groups: t1, t2, the projection, and the join group, which lists
\* both the join over [t1, t2] and the join over [t2, t1]; the cheapest
\* expression of the join group has row count 20.
C15_ScenarioS1 ==
    (OptimizeReturned /\ S1_Input) =>
        /\ Cardinality(DOMAIN memo) = 5
        /\ {memo[h] : h \in DOMAIN memo} = 1..4
        /\ Cardinality({h \in DOMAIN memo : memo[h] = 3}) = 2
        /\ Len(groups[3].equivalent) = 2
        /\ HoldsJoinOver(groups[3].equivalent, <<1, 2>>)
        /\ HoldsJoinOver(groups[3].equivalent, <<2, 1>>)
        /\ groups[3].cheapest_logical_expression # None
        /\ groups[3].cheapest_logical_expression[1].row_count = 20

\* C15 witness: optimize has returned on the plan of S1.
C15_Witness ==
    /\ OptimizeReturned
    /\ S1_Input
    /\ groups[root].explored

\* The plan of scenario S2 has been interned: SELECT 1 over the left-deep
\* chain (t1 JOIN t2 ON a1 = a2) JOIN t3 ON a2 = a3. Its groups are t1, t2,
\* t1 JOIN t2, t3, the top join and the projection, in this order.
S2_Input ==
    /\ todo = << >>
    /\ Len(results) = 1
    /\ Len(groups) >= 6
    /\ groups[1].start_expression[1].op.table = 1
    /\ groups[2].start_expression[1].op.table = 2
    /\ groups[3].start_expression[1].op = JoinNode("Inner", {<<1, 2>>}, "None", {1, 2})
    /\ groups[3].start_expression[1].operands = <<1, 2>>
    /\ groups[4].start_expression[1].op.table = 3
    /\ groups[5].start_expression[1].op = JoinNode("Inner", {<<2, 3>>}, "None", {1, 2, 3})
    /\ groups[5].start_expression[1].operands = <<3, 4>>
    /\ groups[6].start_expression[1].op = ProjectionNode("1")
    /\ groups[6].start_expression[1].operands = <<5>>

\* The groups whose start expression is a join over the operands ops.
JoinGroupsOver(ops) ==
    {g \in GroupIds : /\ groups[g].start_expression[1].op.kind = "Join"
                      /\ groups[g].start_expression[1].operands = ops}

\* C16: after optimize on the plan of S2, the group of the top join lists the
\* input join, the reshape t1 JOIN (t2 JOIN t3) over the group interned for
\* t2 JOIN t3, and the commuted form of each; and the join of t1 with t3 that
\* associativity interned from the left variant [t2, t1] has the inferred
\* equality a1 = a3 as its on-clause, as has every expression of its group.
C16_ScenarioS2 ==
    (OptimizeReturned /\ S2_Input) =>
        /\ HoldsJoinOver(groups[5].equivalent, <<3, 4>>)
        /\ HoldsJoinOver(groups[5].equivalent, <<4, 3>>)
        /\ \E g23 \in JoinGroupsOver(<<2, 4>>) :
              /\ HoldsJoinOver(groups[5].equivalent, <<1, g23>>)
              /\ HoldsJoinOver(groups[5].equivalent, <<g23, 1>>)
        /\ \E g13 \in JoinGroupsOver(<<1, 4>>) :
              /\ groups[g13].start_expression[1].op.on = {<<1, 3>>}
              /\ \A i \in DOMAIN groups[g13].equivalent :
                    groups[g13].equivalent[i].op.on = {<<1, 3>>}
              /\ HoldsJoinOver(groups[5].equivalent, <<2, g13>>)

\* C16 witness: optimize has returned on the plan of S2, and a group was
\* interned for the join of t1 with t3.
C16_Witness ==
    /\ OptimizeReturned
    /\ S2_Input
    /\ JoinGroupsOver(<<1, 4>>) # {}

\* ------------------------------------------------------- the explored space

\* The text of a tree as util.rs formats it, token by token: a table is its
\* number, "(" is OpenParen and ")" is CloseParen.
OpenParen == 0
CloseParen == -1

\* get_cartesian_product: every way of taking one text from each list, the
\* first list varying slowest, the texts joined in order.
RECURSIVE get_cartesian_product(_)
get_cartesian_product(lists) ==
    IF lists = << >> THEN << << >> >>
    ELSE LET first_list == Head(lists)
             rest == get_cartesian_product(Tail(lists))
             n == Len(rest)
         IN  [k \in 1..(Len(first_list) * n) |->
                 first_list[((k - 1) \div n) + 1] \o rest[((k - 1) % n) + 1]]

RECURSIVE Flatten(_)
Flatten(ss) == IF ss = << >> THEN << >> ELSE Head(ss) \o Flatten(Tail(ss))

\* get_all_possible_trees on group g of the heap gs: for every expression of
\* the equivalent list, "(" product ")" for every product of the trees of its
\* operand groups; a table scan in the list makes the table's name the only
\* tree.
RECURSIVE get_all_possible_trees(_, _)
get_all_possible_trees(gs, g) ==
    LET eqv == gs[g].equivalent
        scans == {i \in DOMAIN eqv : eqv[i].op.kind = "TableScan"}
    IN  IF scans # {}
        THEN LET i == CHOOSE x \in scans : \A y \in scans : x <= y
             IN  << <<eqv[i].op.table>> >>
        ELSE Flatten([i \in DOMAIN eqv |->
                 LET lists == [k \in DOMAIN eqv[i].operands |->
                                  get_all_possible_trees(gs, eqv[i].operands[k])]
                     products == get_cartesian_product(lists)
                 IN  [k \in DOMAIN products |->
                         <<OpenParen>> \o products[k] \o <<CloseParen>>]])

\* get_all_possible_trees_count
RECURSIVE get_all_possible_trees_count(_, _)
get_all_possible_trees_count(gs, g) ==
    LET eqv == gs[g].equivalent
    IN  IF \E i \in DOMAIN eqv : eqv[i].op.kind = "TableScan" THEN 1
        ELSE Sum([i \in DOMAIN eqv |->
                 Product([k \in DOMAIN eqv[i].operands |->
                     get_all_possible_trees_count(gs, eqv[i].operands[k])])])

\* Every ordered binary join tree over the tables S, each table once.
RECURSIVE OrderedJoinTrees(_)
OrderedJoinTrees(S) ==
    IF Cardinality(S) = 1 THEN {<<t>> : t \in S}
    ELSE UNION {{<<OpenParen>> \o l \o r \o <<CloseParen>> :
                    l \in OrderedJoinTrees(L), r \in OrderedJoinTrees(S \ L)} :
                 L \in (SUBSET S) \ {{}, S}}

RECURSIVE Factorial(_)
Factorial(n) == IF n <= 1 THEN 1 ELSE n * Factorial(n - 1)

\* The group of the topmost join of the input plan: the operand of the
\* projection at the root.
TopJoinGroup == groups[root].start_expression[1].operands[1]

\* C17, as the spec states it: after optimize on a chain of N >= 2 inner
\* joined tables, the trees of the top join group are exactly the ordered
\* binary join trees over the N tables, each of them once: there are
\* (2N-2)!/(N-1)! of them.
C17_SaturatesJoinOrders ==
    (/\ OptimizeReturned
     /\ InnerChainInput
     /\ Cardinality(TableScanGroups) >= 2) =>
        LET N == Cardinality(TableScanGroups)
            trees == get_all_possible_trees(groups, TopJoinGroup)
        IN  /\ Range(trees) = OrderedJoinTrees(1..N)
            /\ Len(trees) = Cardinality(Range(trees))
            /\ Len(trees) = Factorial(2 * N - 2) \div Factorial(N - 1)
            /\ get_all_possible_trees_count(groups, TopJoinGroup) = Len(trees)

\* C17 witness: optimize has returned on the chain of four inner joined
\* tables, and the top join group yields 120 trees.
C17_Witness ==
    /\ OptimizeReturned
    /\ InnerChainInput
    /\ Cardinality(TableScanGroups) = 4
    /\ get_all_possible_trees_count(groups, TopJoinGroup) = 120

\* The cost table of update_cost_and_rowcount applied to an operator whose
\* inputs have the row counts rcs and the costs cs: the expression's own row
\* count and cost, with join selectivity 10^-sel.
CostOver(op, rcs, cs, sel) ==
    LET first == IF rcs = << >> THEN DEFAULT_ROW_COUNT ELSE rcs[1]
        row_count ==
            CASE op.kind = "Projection" -> first
              [] op.kind = "Filter" -> first \div 10
              [] op.kind = "Join" -> ScaleDown(Product(rcs), sel)
              [] op.kind = "TableScan" ->
                    IF op.fetch = NoFetch THEN DEFAULT_ROW_COUNT ELSE op.fetch
              [] OTHER -> DEFAULT_ROW_COUNT
        cost ==
            CASE op.kind = "Projection" -> PROJECT_COST_PER_ROW * row_count + Sum(cs)
              [] op.kind = "Filter" -> FILTER_COST_PER_ROW * row_count + Sum(cs)
              [] op.kind = "Join" -> JOIN_COST_PER_ROW * row_count + Sum(cs)
              [] op.kind = "TableScan" -> row_count
              [] OTHER -> 0
    IN  [cost |-> cost, row_count |-> row_count]

\* The bottom-up cost and row count of every tree of the explored space
\* below group g: an expression of the equivalent list over one tree of each
\* operand group, costed from those trees' own row counts and costs.
RECURSIVE TreeCosts(_, _)
TreeCosts(gs, g) ==
    UNION {LET e == gs[g].equivalent[i]
               below == [k \in DOMAIN e.operands |-> TreeCosts(gs, e.operands[k])]
               choices == {c \in [DOMAIN e.operands -> UNION Range(below)] :
                              \A k \in DOMAIN e.operands : c[k] \in below[k]}
           IN  {CostOver(e.op, [k \in DOMAIN e.operands |-> c[k].row_count],
                         [k \in DOMAIN e.operands |-> c[k].cost], sel) :
                   c \in choices, sel \in get_join_selectivity(e.op.on)} :
           i \in DOMAIN gs[g].equivalent}

\* The plan of scenario S5 has been interned: the chain of four inner joined
\* tables with the row counts 100, 200, 30, 400.
S5_Input ==
    /\ todo = << >>
    /\ Len(results) = 1
    /\ InnerChainInput
    /\ Cardinality(TableScanGroups) = 4
    /\ \A g \in TableScanGroups :
          LET op == groups[g].start_expression[1].op
          IN  op.fetch = <<100, 200, 30, 400>>[op.table]

\* C18: after optimize on the plan of S5, the min_cost of the root group is
\* at most the bottom-up cost of every tree of the explored space, and it is
\* the bottom-up cost of one of them.
C18_CostOptimality ==
    (OptimizeReturned /\ S5_Input) =>
        LET costs == {t.cost : t \in TreeCosts(groups, root)}
        IN  /\ \A c \in costs : groups[root].min_cost <= c
            /\ groups[root].min_cost \in costs

\* C18 witness: optimize has returned on the plan of S5, and the trees of
\* the explored space have different bottom-up costs.
C18_Witness ==
    /\ OptimizeReturned
    /\ S5_Input
    /\ Cardinality({t.cost : t \in TreeCosts(groups, root)}) > 1

\* Two columns are in one equivalence class of the predicates eqs.
SameClass(eqs, x, y) == \E C \in get_equivalence_classes(eqs) : x \in C /\ y \in C

\* The result of the first call of infer_equalities, as a set.
InferredSet == Range(inferred.output)

\* C19, as the spec states it: infer_equalities returns exactly one equality
\* for every unordered pair of different columns of one equivalence class of
\* which neither x = y nor y = x is in the input, and nothing else, whatever
\* the hash order; for a = b, b = c, c = d these are three equalities.
C19_InferEqualitiesExact ==
    inferred.step >= 1 =>
        /\ Len(inferred.output) = Cardinality(InferredSet)
        /\ \A x, y \in Cols(inferred.input) :
              (/\ x # y
               /\ SameClass(inferred.input, x, y)
               /\ <<x, y>> \notin inferred.input
               /\ <<y, x>> \notin inferred.input)
                 => (<<x, y>> \in InferredSet) # (<<y, x>> \in InferredSet)
        /\ \A p \in InferredSet :
              /\ p[1] # p[2]
              /\ SameClass(inferred.input, p[1], p[2])
              /\ p \notin inferred.input
              /\ flip_equality(p) \notin inferred.input
        /\ inferred.input = {<<1, 2>>, <<2, 3>>, <<3, 4>>}
              => Cardinality(InferredSet) = 3

\* The pairs of columns a set of equalities relates, whatever the direction.
UpToFlip(eqs) == {{p[1], p[2]} : p \in eqs}

\* C20, as the spec states it: infer_equalities over the input and what was
\* inferred from it yields, up to flip and order, what was inferred from the
\* input.
C20_InferIdempotent ==
    inferred.step = 2 => UpToFlip(Range(inferred.again)) = UpToFlip(InferredSet)

\* C20, amended: infer_equalities over the input and what was inferred from
\* it yields nothing new up to flip: every equality it returns is missing
\* from that list as written and has its flip in it; and the list relates
\* every two different columns of one class, in one direction or the other.
C20_InferClosed ==
    inferred.step = 2 =>
        LET known == inferred.input \cup InferredSet
        IN  /\ \A p \in Range(inferred.again) :
                  p \notin known /\ flip_equality(p) \in known
            /\ \A x, y \in Cols(inferred.input) :
                  (x # y /\ SameClass(inferred.input, x, y))
                      => {x, y} \in UpToFlip(known)

\* C20 witness: the first call inferred an equality, and the second call,
\* under another hash order, returned the flip of an equality it was given.
C20_Witness ==
    /\ inferred.step = 2
    /\ inferred.output # << >>
    /\ inferred.again # << >>

\* The equalities united so far.
United == {uf.input[i] : i \in 1..uf.done}

\* find(x) == find(y), the two calls made one after the other on the maps.
SameRoot(x, y) ==
    LET fx == find([parent |-> uf.parent, rank |-> uf.rank], x)
        fy == find([parent |-> fx.parent, rank |-> fx.rank], y)
    IN  fx.root = fy.root

\* UnionFind::get_equivalence_classes on the maps as they are: the keys of
\* the parent map grouped by their root.
UnionFindClasses ==
    {{y \in DOMAIN uf.parent : SameRoot(x, y)} : x \in DOMAIN uf.parent}

\* C21: once union has been called for every equality of the list, in
\* whatever order the list has them, find(x) = find(y) exactly when x and y
\* are connected by a path of equalities; this holds after every prefix of
\* the list as well and whatever calls of find (with their path compression)
\* came in between, and the classes read off the maps are the connected
\* components of the columns seen.
C21_UnionFindConnectivity ==
    /\ \A x, y \in InferColumns :
           SameRoot(x, y) <=> y \in ClassOf(United, {x})
    /\ uf.done = Len(uf.input) =>
           \A x, y \in InferColumns :
               SameRoot(x, y) <=> y \in ClassOf({uf.input[i] : i \in DOMAIN uf.input}, {x})
    /\ \A C \in UnionFindClasses : \A x \in C : ClassOf(United, {x}) = C

\* C21 witness: three equalities have been united into one class of four
\* columns whose root reached rank 2, and a call of find has compressed the
\* path of every column onto the root.
C21_Witness ==
    /\ uf.done = 3
    /\ uf.done = Len(uf.input)
    /\ uf.finds > 0
    /\ DOMAIN uf.parent = InferColumns
    /\ \E r \in InferColumns :
          /\ uf.rank[r] = 2
          /\ \A x \in InferColumns : uf.parent[x] = r

\* The product of the table selectivities of every pair of an on-clause, as
\* the sum of their exponents.
RECURSIVE SumOverPairs(_)
SumOverPairs(on) ==
    IF on = {} THEN 0
    ELSE LET p == CHOOSE x \in on : TRUE
         IN  SelectivityExp(p[1], p[2]) + SumOverPairs(on \ {p})

\* C22, as the spec states it: the selectivity of a join is the product,
\* over every equality pair of its on-clause, of the selectivity-table entry
\* for the two tables of the pair, a missing entry counting as 1.0.
C22_SelectivityIsProductOverPairs ==
    (call.fn = "get_join_selectivity" /\ call.step = 1) =>
        call.result[1] = SumOverPairs(call.args[1])

\* The join expressions the groups of a heap hold (start expression, queue
\* and equivalent list), each with what build_with_node hashed and what it
\* left out.
HeldJoins(gs) ==
    UNION {{[hash |-> e.hash,
             ops |-> [i \in 1..Len(e.operands) |-> get_group_hash(gs[e.operands[i]])],
             join_type |-> e.op.join_type,
             filter |-> e.op.filter,
             join_constraint |-> e.op.join_constraint,
             on |-> e.op.on] :
               e \in {x \in Range(gs[g].start_expression) \cup Range(gs[g].unexplored)
                              \cup Range(gs[g].equivalent) : x.op.kind = "Join"}} :
           g \in 1..Len(gs)}

\* The join expression a rule has derived and is about to hand to the memo.
DerivedJoin ==
    IF /\ stack # << >>
       /\ Top.pc \in {"add_commutativity", "add_associativity"}
       /\ Top.transformed # << >>
       /\ Head(Top.transformed).op.kind = "Join"
    THEN {Head(Top.transformed)}
    ELSE {}

\* C23: two join expressions with the same operand fingerprints in the same
\* order, the same join type, residual filter and join constraint have the
\* same fingerprint whatever their on-clauses; a derived join whose
\* fingerprint a held join with another on-clause already has changes neither
\* the memo nor any group, and no group ever holds two joins with one
\* fingerprint and different on-clauses.
C23_FingerprintIgnoresOn ==
    /\ [](\A x, y \in HeldJoins(groups) :
             (/\ x.ops = y.ops
              /\ x.join_type = y.join_type
              /\ x.filter = y.filter
              /\ x.join_constraint = y.join_constraint) => x.hash = y.hash)
    /\ [](\A x, y \in HeldJoins(groups) : x.hash = y.hash => x.on = y.on)
    /\ [][\A e \in DerivedJoin :
             (\E y \in HeldJoins(groups) : y.hash = e.hash /\ y.on # e.op.on)
                 => memo' = memo /\ groups' = groups]_vars

\* C23 witness: a rule has derived a join whose fingerprint is that of a join
\* some group holds with a different on-clause.
C23_Witness ==
    \E e \in DerivedJoin :
        \E y \in HeldJoins(groups) : y.hash = e.hash /\ y.on # e.op.on

\* C24, as the spec states it: for a group that has not been explored,
\* get_group_row_count returns the row count of the group's start expression.
C24_UnexploredRowCountOfStart ==
    \A g \in GroupIds :
        (~groups[g].explored /\ groups[g].start_expression # None) =>
            get_group_row_count(groups[g]) = groups[g].start_expression[1].row_count

JoinGroups ==
    {g \in GroupIds :
        \E e \in Range(groups[g].start_expression) \cup Range(groups[g].unexplored)
                    \cup Range(groups[g].equivalent) : e.op.kind = "Join"}

\* The base tables under a group: those of the schema of its start expression.
BaseTables(g) == groups[g].start_expression[1].op.schema

\* C26, as the spec states it: after optimize on a chain of inner joins, no
\* two distinct groups hold join expressions over the same set of base tables.
C26_OneGroupPerTableSet ==
    (OptimizeReturned /\ InnerChainInput) =>
        \A g, h \in JoinGroups : BaseTables(g) = BaseTables(h) => g = h

\* A Join.filter is one of the residuals: None stands for no conjunct, any
\* other filter for the set of its conjuncts.
CarriesOneOf(filter, residuals) ==
    IF filter = "None" THEN {} \in residuals ELSE filter \in residuals

\* The residual filters the two predicate splits of the iteration of
\* apply_join_associativity at hand can return: `right` for the split
\* against the schemas of B and C, `top` for the one against A and (B JOIN C).
SplitResiduals ==
    LET mexpr == Top.mexpr[1]
        left_mexpr == Head(Top.lefts)
        lists == ConjunctLists(left_mexpr.op.on, mexpr.op.on)
        a == StartSchema(groups[left_mexpr.operands[1]])[1]
        b == StartSchema(groups[left_mexpr.operands[2]])[1]
        c == StartSchema(groups[mexpr.operands[2]])[1]
    IN  [right |-> {split_eq_and_noneq_join_predicate(l, b, c).residual :
                       l \in lists},
         top |-> {split_eq_and_noneq_join_predicate(
                      l, a, build_join_schema(b, c)).residual : l \in lists}]

\* C27, as the spec states it: the new right join and the new top join that
\* an iteration of apply_join_associativity builds carry, as their residual
\* filter, the residual the predicate split for them returned.
C27_ResidualCarried ==
    [][(/\ stack # << >>
        /\ Top.pc = "associativity"
        /\ Top.lefts # << >>) =>
          /\ Len(groups') > Len(groups) =>
                CarriesOneOf(groups'[Len(groups')].start_expression[1].op.filter,
                             SplitResiduals.right)
          /\ LET out == stack'[Len(stack')].result
             IN  Len(out) > Len(Top.result) =>
                     CarriesOneOf(out[Len(out)].op.filter, SplitResiduals.top)]_vars

\* A conjunct x = y can be a key of a join of the two schemas: one side is a
\* column of the left schema and the other a column of the right schema.
Keyable(e, left_schema, right_schema) ==
    \/ e[1] \in left_schema /\ e[2] \in right_schema
    \/ e[2] \in left_schema /\ e[1] \in right_schema

\* C28: predicate splitting partitions the conjuncts of the predicate and the
\* inferred equalities. A conjunct that can be a key is not in the residual
\* and its pair is among the keys, in one order or the other; a conjunct that
\* cannot is in the residual and not among the keys. Every key has its left
\* side in the left schema and its right side in the right schema, comes
\* from a conjunct, and is there in one order only; every residual conjunct
\* is a conjunct.
C28_SplitPartitions ==
    (call.fn = "split_eq_and_noneq_join_predicate" /\ call.step = 1) =>
        LET conjuncts == Range(call.args[1])
            left_schema == call.args[2]
            right_schema == call.args[3]
            r == call.result[1]
        IN  /\ ~r.err
            /\ \A e \in conjuncts :
                   IF Keyable(e, left_schema, right_schema)
                   THEN /\ e \notin r.residual
                        /\ e \in r.on \/ flip_equality(e) \in r.on
                   ELSE /\ e \in r.residual
                        /\ e \notin r.on /\ flip_equality(e) \notin r.on
            /\ \A p \in r.on :
                   /\ p[1] \in left_schema /\ p[2] \in right_schema
                   /\ p \in conjuncts \/ flip_equality(p) \in conjuncts
                   /\ flip_equality(p) \notin r.on
            /\ r.residual \subseteq conjuncts

\* C28 witness: a split has returned keys and a residual, one key being a
\* conjunct turned around, and fewer keys than conjuncts that can be one (a
\* pair met again was left out).
C28_Witness ==
    /\ call.fn = "split_eq_and_noneq_join_predicate"
    /\ call.step = 1
    /\ LET list == call.args[1]
           r == call.result[1]
       IN  /\ r.residual # {}
           /\ Cardinality(r.on) <
                 Cardinality({i \in DOMAIN list : Keyable(list[i], call.args[2], call.args[3])})
           /\ \E p \in r.on : p \notin Range(list)

\* The per-row constant of an operator.
CostPerRow(kind) ==
    CASE kind = "Projection" -> PROJECT_COST_PER_ROW
      [] kind = "Filter" -> FILTER_COST_PER_ROW
      [] kind = "Join" -> JOIN_COST_PER_ROW

\* C29: for every expression in the equivalent list of an explored group,
\* neither the build-time cost nor the build-time row count is left; a table
\* scan has its fetch (or DEFAULT_ROW_COUNT) as row count and as cost; any
\* other expression costs its operator's per-row constant times its own row
\* count plus the min_cost of its operand groups; and the row count of a
\* join is the product of its operand groups' row counts scaled down by the
\* join's selectivity and rounded down.
C29_CostAndRowCount ==
    \A g \in GroupIds :
        groups[g].explored =>
            \A e \in Range(groups[g].equivalent) :
                LET kind == e.op.kind
                    operand_costs ==
                        Sum([i \in 1..Len(e.operands) |-> groups[e.operands[i]].min_cost])
                    operand_rows ==
                        [i \in 1..Len(e.operands) |->
                            get_group_row_count(groups[e.operands[i]])]
                IN  /\ e.cost # F64_INFINITY
                    /\ e.row_count # U64_MAX
                    /\ IF kind = "TableScan"
                       THEN /\ e.row_count = IF e.op.fetch = NoFetch
                                             THEN DEFAULT_ROW_COUNT ELSE e.op.fetch
                            /\ e.cost = e.row_count
                       ELSE e.cost = CostPerRow(kind) * e.row_count + operand_costs
                    /\ kind = "Join" =>
                          \E sel \in get_join_selectivity(e.op.on) :
                              e.row_count = ScaleDown(Product(operand_rows), sel)

\* C29 witness: optimize has returned, and an explored group lists two joins
\* of different cost and row count above zero, next to the explored groups of
\* a table scan and of the projection.
C29_Witness ==
    /\ OptimizeReturned
    /\ \E g \in GroupIds :
          /\ groups[g].explored
          /\ \E e, f \in Range(groups[g].equivalent) :
                /\ e.op.kind = "Join" /\ f.op.kind = "Join"
                /\ e.cost # f.cost
                /\ e.row_count > 0
    /\ \A kind \in {"TableScan", "Projection"} :
          \E g \in GroupIds :
              /\ groups[g].explored
              /\ \E e \in Range(groups[g].equivalent) : e.op.kind = kind

\* How often an expression with fingerprint h is in an equivalent list.
TimesListed(h) ==
    Cardinality({p \in UNION {{<<g, i>> : i \in 1..Len(groups[g].equivalent)} :
                                  g \in GroupIds} :
                    groups[p[1]].equivalent[p[2]].hash = h})

\* C30: an expression popped from a queue is costed and appended to the
\* equivalent list in one place only, at the end of the loop body: by then
\* the rules have been applied to it, all its operand groups are explored,
\* and it still has its build-time cost and row count. While the rules run on
\* a popped expression its operand groups are explored and it is in no
\* equivalent list. No fingerprint is listed twice, and once optimize has
\* returned every expression that was ever queued is listed exactly once.
C30_ExploreStepOrder ==
    /\ [][\A g \in GroupIds :
             Len(groups'[g].equivalent) > Len(groups[g].equivalent) =>
                 /\ stack # << >>
                 /\ g = Top.group
                 /\ Top.pc = "add_associativity"
                 /\ Top.transformed = << >>
                 /\ \A i \in DOMAIN Top.mexpr[1].operands :
                        groups[Top.mexpr[1].operands[i]].explored
                 /\ Top.mexpr[1].cost = F64_INFINITY
                 /\ Top.mexpr[1].row_count = U64_MAX
                 /\ \E sel \in get_join_selectivity(Top.mexpr[1].op.on) :
                        groups'[g].equivalent =
                            Append(groups[g].equivalent,
                                   update_cost_and_rowcount(groups, Top.mexpr[1], sel))]_vars
    /\ [](\A k \in DOMAIN stack :
             (stack[k].mexpr # None) =>
                 LET f == stack[k]
                     e == f.mexpr[1]
                 IN  /\ TimesListed(e.hash) = 0
                     /\ e.cost = F64_INFINITY
                     /\ f.pc \in {"add_commutativity", "associativity", "add_associativity"}
                           => \A i \in DOMAIN e.operands : groups[e.operands[i]].explored)
    /\ [](\A g \in GroupIds : \A i \in DOMAIN groups[g].equivalent :
             TimesListed(groups[g].equivalent[i].hash) = 1)
    /\ [](OptimizeReturned =>
             \A i \in DOMAIN enqueued : TimesListed(enqueued[i].hash) = 1)

\* C30 witness: optimize has returned after joins were popped, explored,
\* rewritten and listed: a group lists a join that a rule derived.
C30_Witness ==
    /\ OptimizeReturned
    /\ \E i \in DOMAIN enqueued :
          /\ enqueued[i].by = "rule"
          /\ TimesListed(enqueued[i].hash) = 1
          /\ \E e \in Range(groups[enqueued[i].group].equivalent) :
                e.hash = enqueued[i].hash /\ Len(e.operands) = 2

\* The fingerprints of a sequence of expressions, in order.
HashesOf(seq) == [i \in DOMAIN seq |-> seq[i].hash]

\* The fingerprints ever pushed on the queue of group g, in the order of the
\* pushes.
EnqueuedOn(g) ==
    LET OnG(x) == x.group = g
    IN  HashesOf(SelectSeq(enqueued, OnG))

\* The fingerprint of the expression popped from the queue of g and not yet
\* listed, if a running call of explore holds one.
InFlightOn(g) ==
    LET Holds(f) == f.group = g /\ f.mexpr # None
        held == SelectSeq(stack, Holds)
    IN  [i \in DOMAIN held |-> held[i].mexpr[1].hash]

\* What of a heap takes part in fingerprints and order: for every group the
\* fingerprints of its start expression, of its queue and of its equivalent
\* list.
Skeleton(gs) ==
    [g \in DOMAIN gs |->
        [start |-> HashesOf(gs[g].start_expression),
         unexplored |-> HashesOf(gs[g].unexplored),
         equivalent |-> HashesOf(gs[g].equivalent)]]

\* C31: in every group the equivalent list, then the expression being
\* processed, then the queue are the pushes onto the group's queue in their
\* order, and the first listed expression is the start expression. While
\* the associativity rule runs on a join, the commuted join is already known
\* to the memo, and the outputs collected so far are those of the first join
\* variants of the left operand group's equivalent list, in its order: the
\* k-th output joins the left operand of the k-th variant with the group the
\* memo has for the join of the variant's right operand with the right
\* operand. Every
\* choice a step has (the hash orders of predicate splitting, the
\* representative equalities of the selectivity) leads to the same memo and
\* to the same fingerprints in the same order.
C31_EnqueueOrder ==
    /\ [](\A g \in GroupIds :
             /\ HashesOf(groups[g].equivalent) \o InFlightOn(g)
                    \o HashesOf(groups[g].unexplored) = EnqueuedOn(g)
             /\ groups[g].equivalent # << >> =>
                    groups[g].equivalent[1].hash = get_group_hash(groups[g]))
    /\ []((/\ stack # << >>
           /\ Top.pc \in {"associativity", "add_associativity"}
           /\ Top.mexpr[1].op.kind = "Join") =>
             LET mexpr == Top.mexpr[1]
                 commuted == apply_join_commutativity(groups, mexpr)[1]
                 variants == JoinsOf(groups[mexpr.operands[1]].equivalent)
             IN  /\ commuted.hash \in DOMAIN memo
                 /\ Top.pc = "associativity" =>
                       /\ Len(Top.result) + Len(Top.lefts) = Len(variants)
                       /\ \A k \in DOMAIN Top.result :
                             /\ Top.result[k].operands[1] = variants[k].operands[1]
                             /\ memo[build_with_node(
                                         groups,
                                         [JoinNode("Inner", {}, "None", {}) EXCEPT
                                            !.join_constraint = mexpr.op.join_constraint],
                                         <<variants[k].operands[2], mexpr.operands[2]>>).hash]
                                   = Top.result[k].operands[2])
    /\ [][(/\ stack # << >>
           /\ Top.pc = "associativity"
           /\ Top.lefts # << >>) =>
             LET mexpr == Top.mexpr[1]
                 left_mexpr == Head(Top.lefts)
                 lists == ConjunctLists(left_mexpr.op.on, mexpr.op.on)
             IN  \A on1 \in NewRightOns(groups, mexpr, left_mexpr, lists) :
                 \A on2 \in NewTopOns(groups, mexpr, left_mexpr, lists) :
                     LET r == AssociateVariant(memo, groups, mexpr, left_mexpr, on1, on2)
                     IN  /\ memo' = r.memo
                         /\ Skeleton(groups') = Skeleton(r.groups)
                         /\ HashesOf(stack'[Len(stack')].result)
                               = HashesOf(Top.result \o r.out)]_vars
    /\ [][(/\ stack # << >>
           /\ Top.pc = "add_associativity"
           /\ Top.transformed = << >>) =>
             \A sel \in get_join_selectivity(Top.mexpr[1].op.on) :
                 Skeleton(groups') =
                     Skeleton([groups EXCEPT ![Top.group].equivalent =
                                 Append(@, update_cost_and_rowcount(
                                               groups, Top.mexpr[1], sel))])]_vars

\* C31 witness: the associativity rule has collected the outputs of two join
\* variants of the left operand group, whose own group already lists its
\* start expression and has the commuted join waiting in its queue.
C31_Witness ==
    /\ stack # << >>
    /\ Top.pc = "associativity"
    /\ Len(Top.result) >= 2
    /\ groups[Top.group].equivalent # << >>
    /\ groups[Top.group].unexplored # << >>

\* C32: an explored group is frozen. No step changes a group that is
\* explored: its flag, equivalent list, cheapest expression, min_cost (and
\* its queue and start expression) stay as they are; a call of explore that
\* enters an explored group returns at once; and once the root group is
\* explored, a further call of optimize changes neither memo nor heap.
C32_ExploredIsFrozen ==
    /\ [][\A g \in GroupIds : groups[g].explored => groups'[g] = groups[g]]_vars
    /\ [][(/\ stack # << >>
           /\ Top.pc = "enter"
           /\ groups[Top.group].explored) =>
              /\ stack' = Pop
              /\ memo' = memo
              /\ groups' = groups]_vars
    /\ [][(root # 0 /\ groups[root].explored) =>
              memo' = memo /\ groups' = groups]_vars

\* C32 witness: a second call of optimize has returned, after a run in which
\* explore was entered on groups that were explored already.
C32_Witness ==
    /\ calls = 2
    /\ stack = << >>
    /\ groups[root].explored
    /\ Cardinality({g \in GroupIds : groups[g].explored}) > 4

\* C33: the queue of a group that exists grows only in a step of
\* add_new_mexprs made by the innermost running call of explore, and only
\* the queue of the group that call iterates; no running call of explore
\* iterates a group that an outer call iterates; a group that is new holds
\* its seed expression and nothing else.
C33_PushOnlyByInnermost ==
    /\ [][\A g \in GroupIds :
             Len(groups'[g].unexplored) > Len(groups[g].unexplored) =>
                 /\ stack # << >>
                 /\ g = Top.group
                 /\ Top.mexpr # None
                 /\ Top.pc \in {"add_commutativity", "add_associativity"}
                 /\ groups'[g].unexplored
                       = Append(groups[g].unexplored, Head(Top.transformed))
                 /\ \A h \in GroupIds \ {g} :
                       groups'[h].unexplored = groups[h].unexplored]_vars
    /\ [][\A g \in (Len(groups) + 1)..Len(groups') :
             /\ groups'[g].unexplored = groups'[g].start_expression
             /\ groups'[g].equivalent = << >>]_vars
    /\ [](\A j, k \in DOMAIN stack : stack[j].group = stack[k].group => j = k)

\* C33 witness: a call of explore nested in two others is about to push a
\* derived expression the memo does not know, while the group iterated by
\* the call above it has expressions waiting in its queue.
C33_Witness ==
    /\ Len(stack) >= 3
    /\ Top.pc \in {"add_commutativity", "add_associativity"}
    /\ Top.transformed # << >>
    /\ Head(Top.transformed).hash \notin DOMAIN memo
    /\ \E k \in 1..(Len(stack) - 1) : groups[stack[k].group].unexplored # << >>

\* The operand groups of the expressions that running calls of explore have
\* popped from the queue of group g and not yet listed.
InFlightOperands(g) ==
    UNION {Range(stack[k].mexpr[1].operands) :
              k \in {j \in DOMAIN stack : stack[j].group = g /\ stack[j].mexpr # None}}

\* C34: no group is reachable from itself through the operands of the
\* expressions it holds (start expression, queue, expression in process,
\* equivalent list), and the recursive call of explore for an operand never
\* enters a group that a call higher on the stack is exploring.
C34_OperandGraphAcyclic ==
    /\ [](\A g \in GroupIds :
             g \notin ReachableFrom(OperandsOf(groups[g]) \cup InFlightOperands(g)))
    /\ [][(/\ stack # << >>
           /\ Top.pc = "operands"
           /\ Top.i <= Len(Top.mexpr[1].operands)) =>
              \A k \in DOMAIN stack :
                  stack[k].group # Top.mexpr[1].operands[Top.i]]_vars

\* C34 witness: the associativity rule has interned a new right join and
\* built a new top join over the group the memo returned, three calls of
\* explore deep, with more than eight groups reachable from the root.
C34_Witness ==
    /\ Len(stack) >= 3
    /\ Top.pc = "add_associativity"
    /\ Top.transformed # << >>
    /\ Cardinality(ReachableFrom({stack[1].group})) > 8

\* C35: the cheapest expression of an explored group is an element of its
\* equivalent list, no element of the list costs less, every element before
\* it costs more, and min_cost is its cost.
C35_CheapestIsFirstMinimum ==
    \A g \in GroupIds :
        groups[g].explored =>
            /\ groups[g].cheapest_logical_expression # None
            /\ \E i \in DOMAIN groups[g].equivalent :
                  LET eqv == groups[g].equivalent
                  IN  /\ groups[g].cheapest_logical_expression[1] = eqv[i]
                      /\ groups[g].min_cost = eqv[i].cost
                      /\ \A j \in DOMAIN eqv : eqv[j].cost >= eqv[i].cost
                      /\ \A j \in 1..(i - 1) : eqv[j].cost > eqv[i].cost

\* C35 witness: an explored group whose cheapest expression is neither the
\* first of its equivalent list nor the only one of minimal cost.
C35_Witness ==
    \E g \in GroupIds :
        /\ groups[g].explored
        /\ LET eqv == groups[g].equivalent
               c == groups[g].cheapest_logical_expression[1]
           IN  /\ c # eqv[1]
               /\ \E j \in DOMAIN eqv : eqv[j] # c /\ eqv[j].cost = c.cost

\* C36: once a group is explored, every expression of its equivalent list
\* carries the same row count.
C36_SameRowCountInGroup ==
    \A g \in GroupIds :
        groups[g].explored =>
            \A i, j \in DOMAIN groups[g].equivalent :
                groups[g].equivalent[i].row_count = groups[g].equivalent[j].row_count

\* The groups the memo binds a fingerprint to.
MemoGroups == {memo[h] : h \in DOMAIN memo}

\* The operand groups of the expressions the running calls of explore hold
\* outside any group: the expression in process and the derived expressions
\* not yet added.
HeldOperands ==
    UNION {OperandsIn(stack[k].mexpr) \cup OperandsIn(stack[k].transformed)
                                      \cup OperandsIn(stack[k].result) :
              k \in DOMAIN stack}

\* C37: once the input plan is interned, every group of the memo is reachable
\* from the root through the operands of listed expressions (or of the
\* expressions the running calls hold), and after optimize(root) returned
\* every group of the memo is explored and its queue is empty.
C37_NoGroupLeftBehind ==
    /\ (todo = << >> /\ root # 0) =>
           MemoGroups \subseteq ReachableFrom({root} \cup HeldOperands)
    /\ OptimizeReturned =>
           /\ MemoGroups \subseteq ReachableFrom({root})
           /\ \A g \in MemoGroups :
                 groups[g].explored /\ groups[g].unexplored = << >>

\* C37 witness: optimize has returned over a memo that holds more groups than
\* an input plan has nodes, so some were created as the new right join of
\* associativity, and fingerprints of derived expressions.
C37_Witness ==
    /\ OptimizeReturned
    /\ Cardinality(MemoGroups) > 10
    /\ Cardinality(DOMAIN memo) > Cardinality(MemoGroups)

\* Cascades::get_unique_groups_in_memo: memo.values().cloned().collect(), one
\* handle for every entry of the map. The Vec comes in the map's iteration
\* order, which is unspecified; it is given here by how often it holds each
\* group.
get_unique_groups_in_memo(m) ==
    [g \in {m[h] : h \in DOMAIN m} |-> Cardinality({h \in DOMAIN m : m[h] = g})]

\* C38: get_unique_groups_in_memo returns every group of the memo, and each
\* of them once.
C38_UniqueGroupsOnce ==
    LET unique_groups == get_unique_groups_in_memo(memo)
    IN  /\ DOMAIN unique_groups = GroupIds
        /\ \A g \in GroupIds : unique_groups[g] = 1

\* ------------------------------------------------------- RefCell borrows

\* A borrow of one of the RefCells of a group: the cell of the handle
\* Rc<RefCell<Group>> ("group"), or the cell of one of its two lists.
Borrow(g, cell, mode) == [group |-> g, cell |-> cell, mode |-> mode]

\* A faulty loop head of explore, with the two borrow_mut of the pop in the
\* scrutinee of `while let` and not in a block of their own: they live to the
\* end of the loop body. Apart from that, HeldBorrows.
HeldBorrows_scrutinee(frame) ==
    (IF frame.pc \notin {"enter", "pop"}
     THEN <<Borrow(frame.group, "group", "mut"),
            Borrow(frame.group, "unexplored", "mut")>>
     ELSE << >>)
    \o (IF frame.pc = "associativity" /\ frame.mexpr[1].op.kind = "Join"
        THEN <<Borrow(frame.mexpr[1].operands[1], "group", "shared"),
               Borrow(frame.mexpr[1].operands[1], "equivalent", "shared")>>
        ELSE << >>)

\* The borrows a running call of explore holds from one step to the next.
\* The borrows of the pop end with their block, those of the pushes with
\* their statement; apply_join_associativity keeps left.borrow() and
\* equivalent_logical_mexprs.borrow() of the left operand until it returns.
HeldBorrows(frame) ==
    IF frame.pc = "associativity" /\ frame.mexpr[1].op.kind = "Join"
    THEN <<Borrow(frame.mexpr[1].operands[1], "group", "shared"),
           Borrow(frame.mexpr[1].operands[1], "equivalent", "shared")>>
    ELSE << >>

RECURSIVE LiveBorrowsOf(_)
LiveBorrowsOf(stk) ==
    IF stk = << >> THEN << >>
    ELSE LiveBorrowsOf(SubSeq(stk, 1, Len(stk) - 1)) \o HeldBorrows(stk[Len(stk)])

\* The borrows live between two steps, over all running calls of explore.
LiveBorrows == LiveBorrowsOf(stack)

\* operand.borrow() for each operand in turn, each released before the next:
\* build_with_node's get_group_hash, update_cost_and_rowcount's
\* get_group_row_count and get_group_cost.
OperandReads(operands) ==
    {<<Borrow(operands[k], "group", "shared")>> : k \in DOMAIN operands}

\* The group gen_or_get_from_memo answers with for the new right join of the
\* left variant left_mexpr: the one its fingerprint is bound to, or a new one.
NewRightGroup(left_mexpr) ==
    LET mexpr == Top.mexpr[1]
        h == build_with_node(groups,
                 [JoinNode("Inner", {}, "None", {})
                    EXCEPT !.join_constraint = mexpr.op.join_constraint],
                 <<left_mexpr.operands[2], mexpr.operands[2]>>).hash
    IN  IF h \in DOMAIN memo THEN [group |-> memo[h], fresh |-> FALSE]
        ELSE [group |-> Len(groups) + 1, fresh |-> TRUE]

\* The borrows the next step of the innermost call of explore takes, as the
\* set of its moments: each moment is the list of borrows that step has live
\* at one time, besides those held already.
StepBorrows ==
    IF stack = << >> THEN {}
    ELSE
    LET g == Top.group
    IN  CASE Top.pc = "enter" ->
                 \* group.borrow().is_explored()
                 {<<Borrow(g, "group", "shared")>>}
          [] Top.pc = "pop" ->
                 \* the block of the loop head; after the loop,
                 \* group.borrow_mut().set_explored(true), which reads the
                 \* equivalent list
                 {<<Borrow(g, "group", "mut"), Borrow(g, "unexplored", "mut")>>}
                 \cup (IF groups[g].unexplored = << >>
                       THEN {<<Borrow(g, "group", "mut"),
                               Borrow(g, "equivalent", "shared")>>}
                       ELSE {})
          [] Top.pc = "operands" ->
                 \* the recursive call borrows nothing itself; after the
                 \* last one, apply_join_commutativity builds [right, left]
                 IF Top.i <= Len(Top.mexpr[1].operands) THEN {}
                 ELSE IF Top.mexpr[1].op.kind = "Join"
                 THEN OperandReads(Top.mexpr[1].operands)
                 ELSE {}
          [] Top.pc \in {"add_commutativity", "add_associativity"}
               /\ Top.transformed # << >> ->
                 \* add_new_mexprs: the push of an expression not in the memo
                 IF Head(Top.transformed).hash \notin DOMAIN memo
                 THEN {<<Borrow(g, "group", "mut"), Borrow(g, "unexplored", "mut")>>}
                 ELSE {}
          [] Top.pc = "add_commutativity" /\ Top.transformed = << >> ->
                 \* the head of apply_join_associativity
                 IF Top.mexpr[1].op.kind = "Join"
                 THEN {<<Borrow(Top.mexpr[1].operands[1], "group", "shared"),
                         Borrow(Top.mexpr[1].operands[1], "equivalent", "shared")>>}
                 ELSE {}
          [] Top.pc = "associativity" /\ Top.lefts # << >> ->
                 \* one left variant: the schemas of left_r, right and left_l
                 \* are read, the new right join is built over left_r and
                 \* right and interned (from_mexpr seeds a new group), the
                 \* new top join is built over left_l and the new right group
                 LET left_mexpr == Head(Top.lefts)
                     nr == NewRightGroup(left_mexpr)
                 IN  OperandReads(<<left_mexpr.operands[2], Top.mexpr[1].operands[2],
                                    left_mexpr.operands[1], nr.group>>)
                     \cup (IF nr.fresh
                           THEN {<<Borrow(nr.group, "group", "mut"),
                                   Borrow(nr.group, "unexplored", "mut")>>}
                           ELSE {})
          [] Top.pc = "add_associativity" /\ Top.transformed = << >> ->
                 \* update_cost_and_rowcount, then the push on the
                 \* equivalent list
                 OperandReads(Top.mexpr[1].operands)
                 \cup {<<Borrow(g, "group", "mut"), Borrow(g, "equivalent", "mut")>>}
          [] OTHER -> {}

\* RefCell's rule over a list of borrows live at one time: a cell borrowed
\* mutably has no other borrow.
BorrowConflict(live) ==
    \E i, j \in DOMAIN live :
        /\ i # j
        /\ live[i].group = live[j].group
        /\ live[i].cell = live[j].cell
        /\ live[i].mode = "mut"

\* C39: no step of explore takes a borrow that conflicts with a borrow that
\* is live: a cell borrowed mutably (the pop, the pushes, set_explored, the
\* seeding of a new group) has no other borrow at that time, and a cell
\* borrowed shared has no mutable one, also while apply_join_associativity
\* holds its read borrows and for a join whose two operands are one group.
C39_NoBorrowConflict ==
    \A moment \in StepBorrows : ~BorrowConflict(LiveBorrows \o moment)

\* C39 witness: apply_join_associativity holds its read borrows on the left
\* operand while the next left variant makes it seed a new group, in a run
\* that explored a join whose two operands are one group.
C39_Witness ==
    /\ stack # << >>
    /\ Top.pc = "associativity"
    /\ Top.lefts # << >>
    /\ LiveBorrows # << >>
    /\ NewRightGroup(Head(Top.lefts)).fresh
    /\ \E g \in GroupIds :
          /\ groups[g].explored
          /\ \E i \in DOMAIN groups[g].equivalent :
                LET e == groups[g].equivalent[i]
                IN  Len(e.operands) = 2 /\ e.operands[1] = e.operands[2]

====
